---- MODULE Spec2Model ----
(***************************************************************************)
(* A model of the Pact matching engine (libpact_matching/src/lib.rs and    *)
(* pact_matching/src/{json,matchers}.rs), of the mock server's shutdown    *)
(* and mismatch report (pact_mock_server/src/mock_server.rs), of the       *)
(* broker client's retry loop, payload and HAL navigation                  *)
(* (pact_verifier/src/pact_broker.rs), of the provider verification        *)
(* (pact_verifier/src/lib.rs) and of the Pact handle registry              *)
(* (pact_mock_server_ffi/src/handles.rs).                                  *)
(*                                                                         *)
(* Conventions                                                             *)
(*  - A Rust String is a sequence of one-character strings, so that        *)
(*    split, trim, to_lowercase and the Debug formatting are computed.     *)
(*  - A HashMap is a function; the order in which one HashMap instance is  *)
(*    iterated is unspecified (std::collections::HashMap uses a randomly   *)
(*    seeded hasher per instance), so every evaluation draws an iteration  *)
(*    order for each map it receives.                                      *)
(*  - An Option is a record [some, ...].                                   *)
(*  - A Mismatch is a pair <<variant, fields>>.                            *)
(*  - A formatted message is a tuple <<template, arguments...>>.           *)
(*  - A panic (index out of bounds) unwinds the call: pc = "panicked".     *)
(*  - Every Request and Response of this model carries matching_rules =    *)
(*    None; the rule-driven calls are given a MatchingContext, a record    *)
(*    [config, matchers] where matchers maps rule paths to rule lists.     *)
(*  - A MatchingRule is a tuple <<name, arguments...>>; a JSON Value is a  *)
(*    tuple <<variant, content>>, a map being a function of its keys.      *)
(*  - The entries of a JSON map are visited in key order.                  *)
(***************************************************************************)
EXTENDS Integers, Sequences, FiniteSets, TLC

VARIABLES
    call,        \* the function under evaluation
    expected,    \* its expected argument (a Request or a Response)
    actual,      \* its actual argument
    order,       \* iteration orders of the four HashMaps of this evaluation
    pc,          \* the step the evaluation is at
    mismatches,  \* the &mut Vec<Mismatch> accumulator
    body_calls,  \* number of compare_bodies dispatches of this evaluation
    previous,    \* result of the previous evaluation of the same arguments
    operands,    \* the Mismatch values handed to Mismatch::eq
    equal,       \* equal[i][j]: the result of operands[i] == operands[j]
    ctx,         \* the MatchingContext of a rule-driven call
    returned,    \* the value a rule-driven call returns
    mock_server, \* the MockServer values, their shutdown channel and the calls made
    broker,      \* one with_retries call: its fold state and the requests sent
    verifier,    \* one verify_provider_async call: its accumulators and outputs
    interaction, \* one verify_interaction call: the calls it has made
    hal,         \* a HALClient and the requests it has sent
    handles      \* the PACT_HANDLES registry and the threads creating handles

vars == <<call, expected, actual, order, pc, mismatches, body_calls, previous, operands, equal, ctx, returned, mock_server, broker, verifier, interaction, hal, handles>>

\* The state of the matching functions, and that of the collaborators.
matching == <<call, expected, actual, order, pc, mismatches, body_calls, previous, operands,
              equal, ctx, returned>>

collaborators == <<mock_server, broker, verifier, interaction, hal, handles>>

-----------------------------------------------------------------------------
(* Sequences and strings *)

Min(S) == CHOOSE x \in S : \A y \in S : x <= y

Max(S) == CHOOSE x \in S : \A y \in S : x >= y

RECURSIVE ConcatN(_, _)
ConcatN(f, n) == IF n = 0 THEN <<>> ELSE ConcatN(f, n - 1) \o f[n]

\* The concatenation of a sequence of sequences.
Concat(ss) == ConcatN(ss, Len(ss))

\* All the orders in which the keys S of one HashMap may be iterated.
Orders(S) ==
    { o \in [1..Cardinality(S) -> S] :
        \A i, j \in 1..Cardinality(S) : i # j => o[i] # o[j] }

UpperChars == <<"A","B","C","D","E","F","G","H","I","J","K","L","M",
                "N","O","P","Q","R","S","T","U","V","W","X","Y","Z">>

LowerChars == <<"a","b","c","d","e","f","g","h","i","j","k","l","m",
                "n","o","p","q","r","s","t","u","v","w","x","y","z">>

to_lowercase_char(c) ==
    IF \E i \in 1..Len(UpperChars) : UpperChars[i] = c
    THEN LowerChars[CHOOSE i \in 1..Len(UpperChars) : UpperChars[i] = c]
    ELSE c

\* str::to_lowercase
to_lowercase(s) == [i \in 1..Len(s) |-> to_lowercase_char(s[i])]

\* str::trim
trim(s) ==
    LET keep == { i \in 1..Len(s) : s[i] # " " }
    IN  IF keep = {} THEN <<>> ELSE SubSeq(s, Min(keep), Max(keep))

\* str::split on a one-character pattern: always at least one piece.
RECURSIVE split(_, _)
split(s, pat) ==
    LET at == { i \in 1..Len(s) : s[i] = pat }
    IN  IF at = {} THEN <<s>>
        ELSE <<SubSeq(s, 1, Min(at) - 1)>> \o split(SubSeq(s, Min(at) + 1, Len(s)), pat)

\* strip_whitespace::<Vec<&str>>: the trimmed pieces.
strip_whitespace_vec(val, split_by) ==
    LET pieces == split(val, split_by)
    IN  [i \in 1..Len(pieces) |-> trim(pieces[i])]

\* strip_whitespace::<String>: String's FromIterator<&str> appends the pieces.
strip_whitespace_string(val, split_by) == Concat(strip_whitespace_vec(val, split_by))

\* format!("{:?}", s) of a String (no character of this model needs an escape).
debug_string(s) == <<"\"">> \o s \o <<"\"">>

RECURSIVE debug_items(_, _)
debug_items(v, n) ==
    IF n = 0 THEN <<>>
    ELSE IF n = 1 THEN debug_string(v[1])
    ELSE debug_items(v, n - 1) \o <<",", " ">> \o debug_string(v[n])

\* format!("{:?}", v) of a Vec<String>.
debug_vec(v) == <<"[">> \o debug_items(v, Len(v)) \o <<"]">>

-----------------------------------------------------------------------------
(* enum Mismatch *)

MethodMismatch(e, a) == <<"MethodMismatch", [expected |-> e, actual |-> a]>>

PathMismatch(e, a, m) == <<"PathMismatch", [expected |-> e, actual |-> a, mismatch |-> m]>>

StatusMismatch(e, a) == <<"StatusMismatch", [expected |-> e, actual |-> a]>>

QueryMismatch(p, e, a, m) ==
    <<"QueryMismatch", [parameter |-> p, expected |-> e, actual |-> a, mismatch |-> m]>>

HeaderMismatch(k, e, a, m) ==
    <<"HeaderMismatch", [key |-> k, expected |-> e, actual |-> a, mismatch |-> m]>>

BodyTypeMismatch(e, a) == <<"BodyTypeMismatch", [expected |-> e, actual |-> a]>>

BodyMismatch(p, e, a, m) ==
    <<"BodyMismatch", [path |-> p, expected |-> e, actual |-> a, mismatch |-> m]>>

Some(v) == [some |-> TRUE, val |-> v]

None == [some |-> FALSE]

Ok == [ok |-> TRUE]

Err(message) == [ok |-> FALSE, err |-> message]

-----------------------------------------------------------------------------
(* Scalar matching of strings (matchers.rs) *)

\* MatchingRule values: the variant name, then its arguments.
Equality == <<"Equality">>

Type == <<"Type">>

MinType(min) == <<"MinType", min>>

MaxType(max) == <<"MaxType", max>>

MinMaxType(min, max) == <<"MinMaxType", min, max>>

Include(substr) == <<"Include", substr>>

Integer == <<"Integer">>

Boolean == <<"Boolean">>

NullRule == <<"Null">>

Decimal == <<"Decimal">>

NumberRule == <<"Number">>

StatusCode(status) == <<"StatusCode", status>>

\* str::contains
contains(s, substr) ==
    \E i \in 0..(Len(s) - Len(substr)) : SubSeq(s, i + 1, i + Len(substr)) = substr

Digits == { "0","1","2","3","4","5","6","7","8","9" }

\* str::parse::<u64>() is Ok: an optional "+" and at least one digit (no text
\* of this model is long enough to overflow).
parse_u64_is_ok(s) ==
    LET digits == IF s # <<>> /\ Head(s) = "+" THEN Tail(s) ELSE s
    IN  digits # <<>> /\ \A i \in 1..Len(digits) : digits[i] \in Digits

\* Matches<&str> for &str :: matches_with, for the rules this model applies
\* to strings.  MatchingRule::Null has no arm of its own and reaches the
\* catch-all arm.
matches_with_str(self, actual_value, matcher) ==
    CASE matcher[1] = "Equality" ->
            IF self = actual_value THEN Ok
            ELSE Err(<<"Expected '{}' to be equal to '{}'", self, actual_value>>)
      [] matcher[1] \in {"Type", "MinType", "MaxType", "MinMaxType"} -> Ok
      [] matcher[1] = "Include" ->
            IF contains(actual_value, matcher[2]) THEN Ok
            ELSE Err(<<"Expected '{}' to include '{}'", actual_value, matcher[2]>>)
      [] matcher[1] = "Integer" ->
            IF parse_u64_is_ok(actual_value) THEN Ok
            ELSE Err(<<"Expected '{}' to match an integer number", actual_value>>)
      [] matcher[1] = "Boolean" ->
            IF actual_value \in { <<"t","r","u","e">>, <<"f","a","l","s","e">> } THEN Ok
            ELSE Err(<<"Expected '{}' to match a boolean", actual_value>>)
      [] matcher[1] = "Null" ->
            Err(<<"Unable to match '{}' using {:?}", self, matcher>>)

-----------------------------------------------------------------------------
(* Scalar matching of numbers (matchers.rs).  A u64 or u16 is an integer, an *)
(* f64 is a pair <<whole, tenths>>.                                          *)

TypeFamily == { "Type", "MinType", "MaxType", "MinMaxType" }

\* `actual as u16`: the low sixteen bits.
as_u16(n) == n % 65536

\* HttpStatus values: the class name, and for StatusCodes the explicit set.
HttpStatusClasses ==
    { <<"Information">>, <<"Success">>, <<"Redirect">>, <<"ClientError">>,
      <<"ServerError">>, <<"NonError">>, <<"Error">> }

match_status_code(status_code, status) ==
    LET matches ==
            CASE status[1] = "Information" -> status_code \in 100..199
              [] status[1] = "Success" -> status_code \in 200..299
              [] status[1] = "Redirect" -> status_code \in 300..399
              [] status[1] = "ClientError" -> status_code \in 400..499
              [] status[1] = "ServerError" -> status_code \in 500..599
              [] status[1] = "StatusCodes" -> status_code \in status[2]
              [] status[1] = "NonError" -> status_code < 400
              [] status[1] = "Error" -> status_code >= 400
    IN  IF matches THEN Ok
        ELSE Err(<<"Expected status code {} to be a {}", status_code, status>>)

\* Matches<u64> for &str
matches_with_str_u64(self, actual_value, matcher) ==
    CASE matcher[1] \in TypeFamily ->
            Err(<<"Expected '{}' (String) to be the same type as {} (Number)",
                  self, actual_value>>)
      [] matcher[1] = "Equality" ->
            Err(<<"Expected '{}' (String) to be equal to {} (Number)", self, actual_value>>)
      [] matcher[1] \in { "Number", "Integer" } -> Ok
      [] matcher[1] = "Decimal" ->
            Err(<<"Expected {} to match a decimal number", actual_value>>)
      [] matcher[1] = "StatusCode" -> match_status_code(as_u16(actual_value), matcher[2])
      [] matcher[1] \in { "Null", "Boolean" } -> 
            Err(<<"String: Unable to match {} using {:?}", self, matcher>>)

\* Matches<u64> for u64
matches_with_u64_u64(self, actual_value, matcher) ==
    CASE matcher[1] \in TypeFamily -> Ok
      [] matcher[1] = "Equality" ->
            IF self = actual_value THEN Ok
            ELSE Err(<<"Expected {} to be equal to {}", self, actual_value>>)
      [] matcher[1] \in { "Number", "Integer" } -> Ok
      [] matcher[1] = "Decimal" ->
            Err(<<"Expected {} to match a decimal number", actual_value>>)
      [] matcher[1] = "StatusCode" -> match_status_code(as_u16(actual_value), matcher[2])
      [] matcher[1] \in { "Null", "Boolean" } -> 
            Err(<<"Unable to match {} using {:?}", self, matcher>>)

\* Matches<f64> for u64 where the Type family passes an integer against a
\* decimal.
matches_with_u64_f64TypePasses(self, actual_value, matcher) ==
    CASE matcher[1] \in TypeFamily -> Ok
      [] matcher[1] = "Equality" ->
            Err(<<"Expected {} (Integer) to be equal to {} (Decimal)", self, actual_value>>)
      [] matcher[1] \in { "Number", "Decimal" } -> Ok
      [] matcher[1] = "Integer" ->
            Err(<<"Expected {} to match an integer number", actual_value>>)
      [] matcher[1] \in { "Null", "Boolean", "StatusCode" } -> 
            Err(<<"Unable to match {} using {:?}", self, matcher>>)

\* Matches<f64> for u64
matches_with_u64_f64(self, actual_value, matcher) ==
    CASE matcher[1] \in TypeFamily ->
            Err(<<"Expected {} (Integer) to be the same type as {} (Decimal)",
                  self, actual_value>>)
      [] matcher[1] = "Equality" ->
            Err(<<"Expected {} (Integer) to be equal to {} (Decimal)", self, actual_value>>)
      [] matcher[1] \in { "Number", "Decimal" } -> Ok
      [] matcher[1] = "Integer" ->
            Err(<<"Expected {} to match an integer number", actual_value>>)
      [] matcher[1] \in { "Null", "Boolean", "StatusCode" } -> 
            Err(<<"Unable to match {} using {:?}", self, matcher>>)

\* Matches<f64> for f64
matches_with_f64_f64(self, actual_value, matcher) ==
    CASE matcher[1] \in TypeFamily -> Ok
      [] matcher[1] = "Equality" ->
            IF self = actual_value THEN Ok
            ELSE Err(<<"Expected {} to be equal to {}", self, actual_value>>)
      [] matcher[1] \in { "Number", "Decimal" } -> Ok
      [] matcher[1] = "Integer" ->
            Err(<<"Expected {} to match an integer number", actual_value>>)
      [] matcher[1] \in { "Null", "Boolean", "StatusCode" } -> 
            Err(<<"Unable to match {} using {:?}", self, matcher>>)

\* Matches<u64> for f64
matches_with_f64_u64(self, actual_value, matcher) ==
    CASE matcher[1] \in TypeFamily ->
            Err(<<"Expected {} (Decimal) to be the same type as {} (Integer)",
                  self, actual_value>>)
      [] matcher[1] = "Equality" ->
            Err(<<"Expected {} (Decimal) to be equal to {} (Integer)", self, actual_value>>)
      [] matcher[1] \in { "Number", "Integer" } -> Ok
      [] matcher[1] = "Decimal" ->
            Err(<<"Expected {} to match a decimal number", actual_value>>)
      [] matcher[1] \in { "Null", "Boolean", "StatusCode" } -> 
            Err(<<"Unable to match '{}' using {:?}", self, matcher>>)

\* Matches<u16> for &str and for u16: both widen to u64.
matches_with_str_u16(self, actual_value, matcher) ==
    matches_with_str_u64(self, actual_value, matcher)

matches_with_u16_u16(self, actual_value, matcher) ==
    matches_with_u64_u64(self, actual_value, matcher)

-----------------------------------------------------------------------------
(* Method, path, status (lib.rs) *)

match_method(e, a) ==
    IF to_lowercase(e) # to_lowercase(a) THEN <<MethodMismatch(e, a)>> ELSE <<>>

match_path(e, a) ==
    LET matcher_result == matches_with_str(e, a, Equality)
    IN  IF matcher_result.ok THEN <<>>
        ELSE <<PathMismatch(e, a, matcher_result.err)>>

match_status(e, a) ==
    IF e # a THEN <<StatusMismatch(e, a)>> ELSE <<>>

-----------------------------------------------------------------------------
(* Query parameters (lib.rs) *)

compare_query_parameter_value(key, e, a) ==
    LET matcher_result == matches_with_str(e, a, Equality)
    IN  IF matcher_result.ok THEN <<>>
        ELSE <<QueryMismatch(key, e, a, matcher_result.err)>>

compare_query_parameter_values(key, e, a) ==
    Concat([index \in 1..Len(e) |->
        IF index <= Len(a)
        THEN compare_query_parameter_value(key, e[index], a[index])
        ELSE <<QueryMismatch(key, debug_vec(e), debug_vec(a),
                 <<"Expected query parameter '{}' value '{}' but was missing", key, e[index]>>)>>])

\* match_query_values without the comparison of the two lengths.
match_query_valuesNoLengthCheck(key, e, a) ==
    IF e = <<>> /\ a # <<>>
    THEN <<QueryMismatch(key, debug_vec(e), debug_vec(a),
             <<"Expected an empty parameter list for '{}' but received {:?}", key, a>>)>>
    ELSE compare_query_parameter_values(key, e, a)

match_query_values(key, e, a) ==
    IF e = <<>> /\ a # <<>>
    THEN <<QueryMismatch(key, debug_vec(e), debug_vec(a),
             <<"Expected an empty parameter list for '{}' but received {:?}", key, a>>)>>
    ELSE (IF Len(e) # Len(a)
          THEN <<QueryMismatch(key, debug_vec(e), debug_vec(a),
                   <<"Expected query parameter '{}' with {} value(s) but received {} value(s)",
                     key, Len(e), Len(a)>>)>>
          ELSE <<>>)
         \o compare_query_parameter_values(key, e, a)

query_missing(key, value) ==
    QueryMismatch(key, debug_vec(value), <<>>,
        <<"Expected query parameter '{}' but was missing", key>>)

query_unexpected(key, value) ==
    QueryMismatch(key, <<>>, debug_vec(value),
        <<"Unexpected query parameter '{}' received", key>>)

\* eorder and aorder are the iteration orders of the two HashMaps.
match_query_maps(e, a, eorder, aorder) ==
    Concat([i \in 1..Len(eorder) |->
        LET key == eorder[i]
        IN  IF key \in DOMAIN a
            THEN match_query_values(key, e[key], a[key])
            ELSE <<query_missing(key, e[key])>>])
    \o
    Concat([i \in 1..Len(aorder) |->
        LET key == aorder[i]
        IN  IF key \in DOMAIN e THEN <<>> ELSE <<query_unexpected(key, a[key])>>])

match_query(e, a, eorder, aorder) ==
    CASE a.some /\ e.some -> match_query_maps(e.val, a.val, eorder, aorder)
      [] a.some /\ ~e.some ->
            [i \in 1..Len(aorder) |-> query_unexpected(aorder[i], a.val[aorder[i]])]
      [] ~a.some /\ e.some ->
            [i \in 1..Len(eorder) |-> query_missing(eorder[i], e.val[eorder[i]])]
      [] ~a.some /\ ~e.some -> <<>>

-----------------------------------------------------------------------------
(* Headers (lib.rs) *)

CONTENT_TYPE == <<"C","o","n","t","e","n","t","-","T","y","p","e">>

content_type_lc == <<"c","o","n","t","e","n","t","-","t","y","p","e">>

\* The name/value pieces of each parameter: split on "=" and trimmed.
name_values(parameters) ==
    [i \in 1..Len(parameters) |-> strip_whitespace_vec(parameters[i], "=")]

\* name_value[1] is indexed without a length check: a parameter without "="
\* panics with an index out of bounds.
parse_charset_parameters_panics(parameters) ==
    \E i \in 1..Len(parameters) : Len(name_values(parameters)[i]) < 2

\* The fold inserts in order, so the last occurrence of a name wins.
parse_charset_parameters(parameters) ==
    LET nv == name_values(parameters)
        names == { nv[i][1] : i \in 1..Len(nv) }
    IN  [n \in names |-> nv[Max({ i \in 1..Len(nv) : nv[i][1] = n })][2]]

match_content_type_panics(e, a) ==
    LET expected_values == strip_whitespace_vec(e, ";")
        actual_values == strip_whitespace_vec(a, ";")
    IN  /\ Head(expected_values) = Head(actual_values)
        /\ \/ parse_charset_parameters_panics(Tail(expected_values))
           \/ parse_charset_parameters_panics(Tail(actual_values))

\* match_content_type where an expected parameter that the actual value lacks
\* is passed over: only the parameters on both sides are compared.
match_content_typeSharedOnly(e, a) ==
    LET expected_values == strip_whitespace_vec(e, ";")
        actual_values == strip_whitespace_vec(a, ";")
        header_mismatch ==
            HeaderMismatch(CONTENT_TYPE, e, a,
                <<"Expected header 'Content-Type' to have value '{}' but was '{}'", e, a>>)
    IN  IF Head(expected_values) = Head(actual_values)
        THEN LET expected_parameter_map == parse_charset_parameters(Tail(expected_values))
                 actual_parameter_map == parse_charset_parameters(Tail(actual_values))
                 failing == { k \in DOMAIN expected_parameter_map :
                                IF k \in DOMAIN actual_parameter_map
                                THEN expected_parameter_map[k] # actual_parameter_map[k]
                                ELSE FALSE }
             IN  [i \in 1..Cardinality(failing) |-> header_mismatch]
        ELSE <<header_mismatch>>

\* One clone of header_mismatch is pushed per expected parameter that the
\* actual value lacks or holds with another value.
match_content_type(e, a) ==
    LET expected_values == strip_whitespace_vec(e, ";")
        actual_values == strip_whitespace_vec(a, ";")
        header_mismatch ==
            HeaderMismatch(CONTENT_TYPE, e, a,
                <<"Expected header 'Content-Type' to have value '{}' but was '{}'", e, a>>)
    IN  IF Head(expected_values) = Head(actual_values)
        THEN LET expected_parameter_map == parse_charset_parameters(Tail(expected_values))
                 actual_parameter_map == parse_charset_parameters(Tail(actual_values))
                 failing == { k \in DOMAIN expected_parameter_map :
                                IF k \in DOMAIN actual_parameter_map
                                THEN expected_parameter_map[k] # actual_parameter_map[k]
                                ELSE TRUE }
             IN  [i \in 1..Cardinality(failing) |-> header_mismatch]
        ELSE <<header_mismatch>>

match_header_value_panics(key, e, a) ==
    /\ to_lowercase(key) = content_type_lc
    /\ match_content_type_panics(strip_whitespace_string(e, ","),
                                 strip_whitespace_string(a, ","))

match_header_value(key, e, a) ==
    LET es == strip_whitespace_string(e, ",")
        as == strip_whitespace_string(a, ",")
    IN  IF to_lowercase(key) = content_type_lc
        THEN match_content_type(es, as)
        ELSE LET matcher_result == matches_with_str(es, as, Equality)
             IN  IF matcher_result.ok THEN <<>>
                 ELSE <<HeaderMismatch(key, es, as, matcher_result.err)>>

\* map.keys().find(..): the first key, in the map's iteration order, that
\* equals key ignoring case.
find_entry(map, key, map_order) ==
    LET hits == { i \in 1..Len(map_order) :
                    to_lowercase(map_order[i]) = to_lowercase(key) }
    IN  IF hits = {} THEN None ELSE Some(<<key, map[map_order[Min(hits)]]>>)

header_missing(key, value) ==
    HeaderMismatch(key, debug_string(value), <<>>,
        <<"Expected header '{}' but was missing", key>>)

match_header_maps_panics(e, a, aorder) ==
    \E key \in DOMAIN e :
        LET entry == find_entry(a, key, aorder)
        IN  entry.some /\ match_header_value_panics(key, e[key], entry.val[2])

match_header_maps(e, a, eorder, aorder) ==
    Concat([i \in 1..Len(eorder) |->
        LET key == eorder[i]
            entry == find_entry(a, key, aorder)
        IN  IF entry.some
            THEN match_header_value(key, e[key], entry.val[2])
            ELSE <<header_missing(key, e[key])>>])

match_headers_panics(e, a, aorder) ==
    a.some /\ e.some /\ match_header_maps_panics(e.val, a.val, aorder)

match_headers(e, a, eorder, aorder) ==
    CASE a.some /\ e.some -> match_header_maps(e.val, a.val, eorder, aorder)
      [] a.some /\ ~e.some -> <<>>
      [] ~a.some /\ e.some ->
            [i \in 1..Len(eorder) |-> header_missing(eorder[i], e.val[eorder[i]])]
      [] ~a.some /\ ~e.some -> <<>>

-----------------------------------------------------------------------------
(* JSON values (serde_json::Value) and the JSON body matcher (json.rs) *)

MaxList == 2

JsonScalars == { <<"Null">>, <<"Number", 1>>, <<"Number", 2>>, <<"String", <<"a">>>> }

JsonLists == UNION { [1..n -> JsonScalars] : n \in 0..MaxList }

\* The parsed documents of this model: scalars and lists of scalars.
JsonValues == JsonScalars \cup { <<"Array", l>> : l \in JsonLists }

DigitChars == <<"0","1","2","3","4","5","6","7","8","9">>

\* usize::to_string for an index below ten.
index_to_string(n) == <<DigitChars[n + 1]>>

\* String order on keys, by the first position where two keys differ.
char_index(c) == CHOOSE i \in 1..Len(LowerChars) : LowerChars[i] = c

key_less(k1, k2) ==
    \E i \in 1..Len(k2) :
        /\ \A j \in 1..(i - 1) : j <= Len(k1) /\ k1[j] = k2[j]
        /\ i > Len(k1) \/ (i - 1 < Len(k1) /\ char_index(k1[i]) < char_index(k2[i]))

\* The keys of a map in ascending order.
sorted_keys(S) ==
    CHOOSE o \in [1..Cardinality(S) -> S] :
        \A i \in 1..Cardinality(S), j \in 1..Cardinality(S) : i < j => key_less(o[i], o[j])

\* Vec<String>::join(", ")
RECURSIVE join_keys(_, _)
join_keys(keys, n) ==
    IF n = 0 THEN <<>>
    ELSE IF n = 1 THEN keys[1]
    ELSE join_keys(keys, n - 1) \o <<",", " ">> \o keys[n]

RECURSIVE to_string(_)
RECURSIVE join_values(_, _)
RECURSIVE join_entries(_, _, _)
\* Display of a Value: the compact serialisation.
to_string(json) ==
    CASE json[1] = "Null" -> <<"n","u","l","l">>
      [] json[1] = "Number" /\ Len(json) = 2 -> index_to_string(json[2])
      [] json[1] = "Number" /\ Len(json) = 3 ->
            index_to_string(json[2]) \o <<".">> \o index_to_string(json[3])
      [] json[1] = "Bool" ->
            IF json[2] THEN <<"t","r","u","e">> ELSE <<"f","a","l","s","e">>
      [] json[1] = "String" -> debug_string(json[2])
      [] json[1] = "Array" -> <<"[">> \o join_values(json[2], Len(json[2])) \o <<"]">>
      [] json[1] = "Object" ->
            <<"{">> \o join_entries(json[2], sorted_keys(DOMAIN json[2]),
                                    Cardinality(DOMAIN json[2])) \o <<"}">>

\* The entries of a serde_json Map, which keeps its keys sorted.
join_entries(map, keys, n) ==
    IF n = 0 THEN <<>>
    ELSE (IF n = 1 THEN <<>> ELSE join_entries(map, keys, n - 1) \o <<",">>)
         \o debug_string(keys[n]) \o <<":">> \o to_string(map[keys[n]])

join_values(l, n) ==
    IF n = 0 THEN <<>>
    ELSE IF n = 1 THEN to_string(l[1])
    ELSE join_values(l, n - 1) \o <<",">> \o to_string(l[n])

\* pact_models::json_utils::json_to_string: a string without its quotes.
json_to_string(json) == IF json[1] = "String" THEN json[2] ELSE to_string(json)

type_of(json) ==
    CASE json[1] = "Array" -> "List"
      [] json[1] = "Null" -> "Null"
      [] json[1] = "Number" -> "Number"
      [] json[1] = "String" -> "String"
      [] json[1] = "Bool" -> "Boolean"
      [] json[1] = "Object" -> "Map"

\* serde_json::from_slice: the value whose serialisation the text is, or an
\* error when the text serialises no value.
from_slice(text) ==
    IF \E v \in JsonValues : to_string(v) = text
    THEN [ok |-> TRUE, val |-> CHOOSE v \in JsonValues : to_string(v) = text]
    ELSE [ok |-> FALSE]

\* A serde_json Number is <<"Number", n>> for the integer n (N::PosInt) and
\* <<"Number", w, f>> for the decimal w.f (N::Float), f being one digit.
is_f64(json) == json[1] = "Number" /\ Len(json) = 3

is_u64(json) == json[1] = "Number" /\ Len(json) = 2

\* The (X, X) arms of the Type family: both values are of one variant of
\* Value.
same_variant(self, actual_value) == self[1] = actual_value[1]

not_same_type(self, actual_value) ==
    Err(<<"Expected '{}' to be the same type as '{}'",
          json_to_string(self), json_to_string(actual_value)>>)

\* matches_with where the MinType arm tests the length of a cascaded rule
\* too.
matches_with_valueMinIgnoresCascaded(self, actual_value, matcher, cascaded) ==
    CASE matcher[1] = "Equality" ->
            IF self = actual_value THEN Ok
            ELSE Err(<<"Expected '{}' to be equal to '{}'",
                       json_to_string(self), json_to_string(actual_value)>>)
      [] matcher[1] = "Type" ->
            IF same_variant(self, actual_value) THEN Ok
            ELSE not_same_type(self, actual_value)
      [] matcher[1] = "MinType" ->
            IF ~same_variant(self, actual_value) THEN not_same_type(self, actual_value)
            ELSE IF self[1] = "Array" /\ Len(actual_value[2]) < matcher[2]
                 THEN Err(<<"Expected '{}' to have at least {} item(s)",
                            json_to_string(actual_value), matcher[2]>>)
                 ELSE Ok
      [] matcher[1] = "MaxType" ->
            IF ~same_variant(self, actual_value) THEN not_same_type(self, actual_value)
            ELSE IF self[1] = "Array" /\ ~cascaded /\ Len(actual_value[2]) > matcher[2]
                 THEN Err(<<"Expected '{}' to have at most {} item(s)",
                            json_to_string(actual_value), matcher[2]>>)
                 ELSE Ok
      [] matcher[1] = "MinMaxType" ->
            IF ~same_variant(self, actual_value) THEN not_same_type(self, actual_value)
            ELSE IF self[1] = "Array" /\ ~cascaded /\ Len(actual_value[2]) < matcher[2]
                 THEN Err(<<"Expected '{}' to have at least {} item(s)",
                            json_to_string(actual_value), matcher[2]>>)
                 ELSE IF self[1] = "Array" /\ ~cascaded /\ Len(actual_value[2]) > matcher[3]
                 THEN Err(<<"Expected '{}' to have at most {} item(s)",
                            json_to_string(actual_value), matcher[3]>>)
                 ELSE Ok
      [] matcher[1] = "Null" ->
            IF actual_value[1] = "Null" THEN Ok
            ELSE Err(<<"Expected '{}' to be a null value", json_to_string(actual_value)>>)
      [] matcher[1] = "Integer" ->
            IF is_u64(actual_value) THEN Ok
            ELSE Err(<<"Expected '{}' to be an integer value", json_to_string(actual_value)>>)
      [] matcher[1] = "Decimal" ->
            IF is_f64(actual_value) THEN Ok
            ELSE Err(<<"Expected '{}' to be a decimal value", json_to_string(actual_value)>>)

\* Matches<&Value> for Value :: matches_with, for the rules this model applies
\* to JSON values.
matches_with_value(self, actual_value, matcher, cascaded) ==
    CASE matcher[1] = "Equality" ->
            IF self = actual_value THEN Ok
            ELSE Err(<<"Expected '{}' to be equal to '{}'",
                       json_to_string(self), json_to_string(actual_value)>>)
      [] matcher[1] = "Type" ->
            IF same_variant(self, actual_value) THEN Ok
            ELSE not_same_type(self, actual_value)
      [] matcher[1] = "MinType" ->
            IF ~same_variant(self, actual_value) THEN not_same_type(self, actual_value)
            ELSE IF self[1] = "Array" /\ ~cascaded /\ Len(actual_value[2]) < matcher[2]
                 THEN Err(<<"Expected '{}' to have at least {} item(s)",
                            json_to_string(actual_value), matcher[2]>>)
                 ELSE Ok
      [] matcher[1] = "MaxType" ->
            IF ~same_variant(self, actual_value) THEN not_same_type(self, actual_value)
            ELSE IF self[1] = "Array" /\ ~cascaded /\ Len(actual_value[2]) > matcher[2]
                 THEN Err(<<"Expected '{}' to have at most {} item(s)",
                            json_to_string(actual_value), matcher[2]>>)
                 ELSE Ok
      [] matcher[1] = "MinMaxType" ->
            IF ~same_variant(self, actual_value) THEN not_same_type(self, actual_value)
            ELSE IF self[1] = "Array" /\ ~cascaded /\ Len(actual_value[2]) < matcher[2]
                 THEN Err(<<"Expected '{}' to have at least {} item(s)",
                            json_to_string(actual_value), matcher[2]>>)
                 ELSE IF self[1] = "Array" /\ ~cascaded /\ Len(actual_value[2]) > matcher[3]
                 THEN Err(<<"Expected '{}' to have at most {} item(s)",
                            json_to_string(actual_value), matcher[3]>>)
                 ELSE Ok
      [] matcher[1] = "Null" ->
            IF actual_value[1] = "Null" THEN Ok
            ELSE Err(<<"Expected '{}' to be a null value", json_to_string(actual_value)>>)
      [] matcher[1] = "Integer" ->
            IF is_u64(actual_value) THEN Ok
            ELSE Err(<<"Expected '{}' to be an integer value", json_to_string(actual_value)>>)
      [] matcher[1] = "Decimal" ->
            IF is_f64(actual_value) THEN Ok
            ELSE Err(<<"Expected '{}' to be a decimal value", json_to_string(actual_value)>>)

\* path.join(".")
RECURSIVE join_path(_, _)
join_path(path, n) ==
    IF n = 1 THEN path[1] ELSE join_path(path, n - 1) \o <<".">> \o path[n]

\* The Matches implementation the type parameters of a generic call select.
matches_with(E, self, actual_value, matcher, cascaded) ==
    CASE E = "str" -> matches_with_str(self, actual_value, matcher)
      [] E = "Value" -> matches_with_value(self, actual_value, matcher, cascaded)
      [] E = "u64 for &str" -> matches_with_str_u64(self, actual_value, matcher)
      [] E = "u16 for &str" -> matches_with_str_u16(self, actual_value, matcher)
      [] E = "u64 for u64" -> matches_with_u64_u64(self, actual_value, matcher)
      [] E = "u16 for u16" -> matches_with_u16_u16(self, actual_value, matcher)
      [] E = "f64 for u64" -> matches_with_u64_f64(self, actual_value, matcher)
      [] E = "f64 for f64" -> matches_with_f64_f64(self, actual_value, matcher)
      [] E = "u64 for f64" -> matches_with_f64_u64(self, actual_value, matcher)

-----------------------------------------------------------------------------
(* Rule selection (MatchingContext and MatchingRuleCategory, whose code is   *)
(* not part of these sources: modelled from the specification, section 4.1) *)

\* A rule path is a sequence of segments; a lookup path is a sequence of
\* tokens.  The wildcard segment matches any token, another segment the
\* equal token.
WILDCARD == <<"*">>

segment_matches(segment, token) == segment = WILDCARD \/ segment = token

\* The rule path matches the lookup path exactly or as a prefix.
path_matches(rule_path, path) ==
    /\ Len(rule_path) <= Len(path)
    /\ \A i \in 1..Len(rule_path) : segment_matches(rule_path[i], path[i])

literal_segments(rule_path) ==
    Cardinality({ i \in 1..Len(rule_path) : rule_path[i] # WILDCARD })

\* weight_above where the length is compared first and the literal segments
\* break a tie.
weight_aboveLengthFirst(r1, r2) ==
    \/ Len(r1) > Len(r2)
    \/ Len(r1) = Len(r2) /\ literal_segments(r1) > literal_segments(r2)

\* (literal segments, length) of one rule path is above that of the other.
weight_above(r1, r2) ==
    \/ literal_segments(r1) > literal_segments(r2)
    \/ literal_segments(r1) = literal_segments(r2) /\ Len(r1) > Len(r2)

matching_paths(context, path) ==
    { r \in DOMAIN context.matchers : path_matches(r, path) }

matcher_is_defined(context, path) == matching_paths(context, path) # {}

\* The rule list of the matching rule path of the highest weight, cascaded
\* when that path is a strict prefix of the lookup path; the empty list when
\* no rule path matches.
select_best_matcher(context, path) ==
    LET candidates == matching_paths(context, path)
        best == CHOOSE r \in candidates : \A r2 \in candidates : ~weight_above(r2, r)
    IN  IF candidates = {}
        THEN [rules |-> <<>>, rule_logic |-> "And", cascaded |-> FALSE]
        ELSE [rules |-> context.matchers[best].rules,
              rule_logic |-> context.matchers[best].rule_logic,
              cascaded |-> Len(best) < Len(path)]

-----------------------------------------------------------------------------
(* match_values (matchers.rs) *)

\* The messages of the failing results, in order.
RECURSIVE error_messages(_, _)
error_messages(results, n) ==
    IF n = 0 THEN <<>>
    ELSE error_messages(results, n - 1)
         \o (IF results[n].ok THEN <<>> ELSE <<results[n].err>>)

\* match_values where the Or arm asks for every result to be Ok, as the And
\* arm does.
match_valuesOrAsAnd(E, path, context, e, a) ==
    LET matching_rules == select_best_matcher(context, path)
        results == [i \in 1..Len(matching_rules.rules) |->
                       matches_with(E, e, a, matching_rules.rules[i], matching_rules.cascaded)]
        failed == Err(error_messages(results, Len(results)))
    IN  IF matching_rules.rules = <<>>
        THEN [results |-> <<>>,
              value |-> Err(<<<<"No matcher found for path '{}'", join_path(path, Len(path))>>>>)]
        ELSE [results |-> results,
              value |-> IF \A i \in 1..Len(results) : results[i].ok THEN Ok ELSE failed]

\* E names the Matches implementation of the call.  The value is the
\* Result<(), Vec<String>>; results is the vector collected from the rules.
match_values(E, path, context, e, a) ==
    LET matching_rules == select_best_matcher(context, path)
        results == [i \in 1..Len(matching_rules.rules) |->
                       matches_with(E, e, a, matching_rules.rules[i], matching_rules.cascaded)]
        failed == Err(error_messages(results, Len(results)))
    IN  IF matching_rules.rules = <<>>
        THEN [results |-> <<>>,
              value |-> Err(<<<<"No matcher found for path '{}'", join_path(path, Len(path))>>>>)]
        ELSE [results |-> results,
              value |-> CASE matching_rules.rule_logic = "And" ->
                               IF \A i \in 1..Len(results) : results[i].ok THEN Ok ELSE failed
                          [] matching_rules.rule_logic = "Or" ->
                               IF \E i \in 1..Len(results) : results[i].ok THEN Ok ELSE failed]

-----------------------------------------------------------------------------
(* The JSON comparison walk (json.rs) *)

\* MatchingContext::with_config: a context without rules.
with_config(config) == [config |-> config, matchers |-> <<>>]

compare_values(path, e, a, context) ==
    LET matcher_result ==
            IF matcher_is_defined(context, path)
            THEN match_values("Value", path, context, e, a).value
            ELSE LET r == matches_with_value(e, a, Equality, FALSE)
                 IN  IF r.ok THEN Ok ELSE Err(<<r.err>>)
    IN  IF matcher_result.ok THEN <<>>
        ELSE [i \in 1..Len(matcher_result.err) |->
                 BodyMismatch(join_path(path, Len(path)), Some(to_string(e)), Some(to_string(a)),
                              matcher_result.err[i])]

\* The text of a map in the mismatches of match_keys: every value as a
\* string.
RECURSIVE for_mismatch_entries(_, _, _)
for_mismatch_entries(map, keys, n) ==
    IF n = 0 THEN <<>>
    ELSE (IF n = 1 THEN <<>> ELSE for_mismatch_entries(map, keys, n - 1) \o <<",">>)
         \o debug_string(keys[n]) \o <<":">> \o debug_string(json_to_string(map[keys[n]]))

for_mismatch(map) ==
    <<"{">> \o for_mismatch_entries(map, sorted_keys(DOMAIN map), Cardinality(DOMAIN map))
           \o <<"}">>

\* MatchingContext::match_keys: under AllowUnexpectedKeys the expected keys
\* the actual map lacks are reported; under NoUnexpectedKeys the actual keys
\* must also be among the expected ones.  One mismatch at most.
match_keys(context, path, e, a) ==
    LET expected_keys == sorted_keys(DOMAIN e)
        actual_keys == sorted_keys(DOMAIN a)
        missing_keys == sorted_keys(DOMAIN e \ DOMAIN a)
        missing ==
            <<BodyMismatch(join_path(path, Len(path)), Some(for_mismatch(e)),
                Some(for_mismatch(a)),
                <<"Actual map is missing the following keys: {}",
                  join_keys(missing_keys, Len(missing_keys))>>)>>
        differ ==
            <<BodyMismatch(join_path(path, Len(path)), Some(for_mismatch(e)),
                Some(for_mismatch(a)),
                <<"Expected a Map with keys {} but received one with keys {}",
                  join_keys(expected_keys, Len(expected_keys)),
                  join_keys(actual_keys, Len(actual_keys))>>)>>
    IN  CASE context.config = "AllowUnexpectedKeys" ->
                IF missing_keys # <<>> THEN missing ELSE <<>>
          [] context.config = "NoUnexpectedKeys" ->
                IF ~(DOMAIN a \subseteq DOMAIN e) THEN differ
                ELSE IF missing_keys # <<>> THEN missing
                ELSE <<>>

\* A Result<(), Vec<Mismatch>> is its list of mismatches (Ok is the empty
\* list), and merge_result appends.  The entries of a map are visited in
\* the order of their keys.
RECURSIVE compare(_, _, _, _)
RECURSIVE compare_maps_with_matchingrule(_, _, _, _, _)
RECURSIVE compare_maps(_, _, _, _)
RECURSIVE compare_list_content(_, _, _, _)
RECURSIVE compare_lists_with_matchingrule(_, _, _, _, _)
RECURSIVE compare_lists(_, _, _, _)
compare(path, e, a, context) ==
    CASE e[1] = "Object" /\ a[1] = "Object" -> compare_maps(path, e[2], a[2], context)
      [] e[1] = "Object" /\ a[1] # "Object" ->
            <<BodyMismatch(join_path(path, Len(path)),
                Some(json_to_string(e)), Some(json_to_string(a)),
                <<"Type mismatch: Expected {} {} but received {} {}",
                  type_of(e), to_string(e), type_of(a), to_string(a)>>)>>
      [] e[1] = "Array" /\ a[1] = "Array" -> compare_lists(path, e[2], a[2], context)
      [] e[1] = "Array" /\ a[1] # "Array" ->
            <<BodyMismatch(join_path(path, Len(path)),
                Some(json_to_string(e)), Some(json_to_string(a)),
                <<"Type mismatch: Expected {} {} but received {} {}",
                  type_of(e), json_to_string(e), type_of(a), json_to_string(a)>>)>>
      [] OTHER -> compare_values(path, e, a, context)

\* The comparison of two maps under one rule other than Values: the key
\* check, then every expected entry the actual map has.
compare_maps_with_matchingrule(rule, path, e, a, context) ==
    LET keys == sorted_keys(DOMAIN e)
    IN  match_keys(context, path, e, a)
        \o Concat([i \in 1..Len(keys) |->
                IF keys[i] \in DOMAIN a
                THEN compare(Append(path, keys[i]), e[keys[i]], a[keys[i]], context)
                ELSE <<>>])

\* compare_maps where the empty expected map is refused under
\* AllowUnexpectedKeys instead of NoUnexpectedKeys.
compare_mapsEmptyUnderAllow(path, e, a, context) ==
    IF DOMAIN e = {} /\ context.config = "AllowUnexpectedKeys" /\ DOMAIN a # {}
    THEN <<BodyMismatch(join_path(path, Len(path)),
             Some(to_string(<<"Object", e>>)), Some(to_string(<<"Object", a>>)),
             <<"Expected an empty Map but received {}", to_string(<<"Object", a>>)>>)>>
    ELSE IF matcher_is_defined(context, path)
    THEN LET rules == select_best_matcher(context, path).rules
         IN  Concat([i \in 1..Len(rules) |->
                 compare_maps_with_matchingrule(rules[i], path, e, a, context)])
    ELSE LET keys == sorted_keys(DOMAIN e)
         IN  match_keys(context, path, e, a)
             \o Concat([i \in 1..Len(keys) |->
                     IF keys[i] \in DOMAIN a
                     THEN compare(Append(path, keys[i]), e[keys[i]], a[keys[i]], context)
                     ELSE <<>>])

compare_maps(path, e, a, context) ==
    IF DOMAIN e = {} /\ context.config = "NoUnexpectedKeys" /\ DOMAIN a # {}
    THEN <<BodyMismatch(join_path(path, Len(path)),
             Some(to_string(<<"Object", e>>)), Some(to_string(<<"Object", a>>)),
             <<"Expected an empty Map but received {}", to_string(<<"Object", a>>)>>)>>
    ELSE IF matcher_is_defined(context, path)
    THEN LET rules == select_best_matcher(context, path).rules
         IN  Concat([i \in 1..Len(rules) |->
                 compare_maps_with_matchingrule(rules[i], path, e, a, context)])
    ELSE LET keys == sorted_keys(DOMAIN e)
         IN  match_keys(context, path, e, a)
             \o Concat([i \in 1..Len(keys) |->
                     IF keys[i] \in DOMAIN a
                     THEN compare(Append(path, keys[i]), e[keys[i]], a[keys[i]], context)
                     ELSE <<>>])

\* compare_list_content where an expected element beyond the end of the
\* actual list is passed over.
compare_list_contentNoMissing(path, e, a, context) ==
    Concat([i \in 1..Len(e) |->
        IF i <= Len(a)
        THEN compare(Append(path, index_to_string(i - 1)), e[i], a[i], context)
        ELSE <<>>])

compare_list_content(path, e, a, context) ==
    Concat([i \in 1..Len(e) |->
        IF i <= Len(a)
        THEN compare(Append(path, index_to_string(i - 1)), e[i], a[i], context)
        ELSE IF ~matcher_is_defined(context, Append(path, index_to_string(i - 1)))
        THEN <<BodyMismatch(join_path(path, Len(path)),
                 Some(to_string(<<"Array", e>>)), Some(to_string(<<"Array", a>>)),
                 <<"Expected {} but was missing", json_to_string(e[i])>>)>>
        ELSE <<>>])

\* The comparison of two lists under one rule: the rule's own check of the
\* two lists, which for the Type family is the check of the length, then the
\* elements.
compare_lists_with_matchingrule(rule, path, e, a, context) ==
    LET r == matches_with_value(<<"Array", e>>, <<"Array", a>>, rule,
                                select_best_matcher(context, path).cascaded)
    IN  (IF r.ok THEN <<>>
         ELSE <<BodyMismatch(join_path(path, Len(path)),
                  Some(to_string(<<"Array", e>>)), Some(to_string(<<"Array", a>>)), r.err)>>)
        \o compare_list_content(path, e, a, context)

compare_lists(path, e, a, context) ==
    IF matcher_is_defined(context, path)
    THEN LET rules == select_best_matcher(context, path).rules
         IN  Concat([i \in 1..Len(rules) |->
                 compare_lists_with_matchingrule(rules[i], path, e, a, context)])
    ELSE IF e = <<>> /\ a # <<>>
    THEN <<BodyMismatch(join_path(path, Len(path)),
             Some(to_string(<<"Array", e>>)), Some(to_string(<<"Array", a>>)),
             <<"Expected an empty List but received {}", to_string(<<"Array", a>>)>>)>>
    ELSE compare_list_content(path, e, a, context)
         \o (IF Len(e) # Len(a)
             THEN <<BodyMismatch(join_path(path, Len(path)),
                      Some(to_string(<<"Array", e>>)), Some(to_string(<<"Array", a>>)),
                      <<"Expected a List with {} elements but received {} elements",
                        Len(e), Len(a)>>)>>
             ELSE <<>>)

\* match_json where a failure of the actual body is reported only when the
\* expected body parses.
match_jsonFirstFailureOnly(e, a, context) ==
    LET expected_json == from_slice(e)
        actual_json == from_slice(a)
    IN  IF ~expected_json.ok \/ ~actual_json.ok
        THEN (IF ~expected_json.ok
              THEN <<BodyMismatch(<<"$">>, Some(e), Some(a),
                       <<"Failed to parse the expected body: '{}'">>)>>
              ELSE <<>>)
             \o
             (IF expected_json.ok /\ ~actual_json.ok
              THEN <<BodyMismatch(<<"$">>, Some(e), Some(a),
                       <<"Failed to parse the actual body: '{}'">>)>>
              ELSE <<>>)
        ELSE compare(<<<<"$">>>>, expected_json.val, actual_json.val, context)

\* e and a are the two body texts.
match_json(e, a, context) ==
    LET expected_json == from_slice(e)
        actual_json == from_slice(a)
    IN  IF ~expected_json.ok \/ ~actual_json.ok
        THEN (IF ~expected_json.ok
              THEN <<BodyMismatch(<<"$">>, Some(e), Some(a),
                       <<"Failed to parse the expected body: '{}'">>)>>
              ELSE <<>>)
             \o
             (IF ~actual_json.ok
              THEN <<BodyMismatch(<<"$">>, Some(e), Some(a),
                       <<"Failed to parse the actual body: '{}'">>)>>
              ELSE <<>>)
        ELSE compare(<<<<"$">>>>, expected_json.val, actual_json.val, context)

-----------------------------------------------------------------------------
(* Bodies (lib.rs) *)

Missing == <<"Missing">>

Null == <<"Null">>

Present(b) == <<"Present", b>>

\* OptionalBody::is_present
is_present(body) == body[1] = "Present"

\* OptionalBody::value: the text of a present body, else the empty string.
value(body) == IF body[1] = "Present" THEN body[2] ELSE <<>>

\* The content types where the regex application/.*json finds a match.
JsonMimetypes == { "application/json", "application/hal+json" }

match_text(e, a) ==
    IF e # a
    THEN <<BodyMismatch(<<"/">>, Some(e), Some(a),
             <<"Expected text '{}' but received '{}'", e, a>>)>>
    ELSE <<>>

\* BODY_MATCHERS holds the JSON and the XML matcher; no message of this model
\* has an XML content type.  No body text of this model parses to a map, so
\* the DiffConfig of the caller decides nothing here.
compare_bodies(mimetype, e, a) ==
    IF mimetype \in JsonMimetypes
    THEN match_json(e, a, with_config("NoUnexpectedKeys"))
    ELSE match_text(e, a)

\* The result of match_body: what it pushes, and whether it handed the two
\* bodies to compare_bodies.
Pushed(ms) == [pushed |-> ms, dispatched |-> FALSE]

Dispatched(ms) == [pushed |-> ms, dispatched |-> TRUE]

\* match_body where an expected present body against an actual Null body is
\* left alone instead of reaching the catch-all arm.
match_bodyNullIsNoOp(e, a) ==
    IF e.mimetype = a.mimetype
    THEN CASE e.body = Missing -> Pushed(<<>>)
           [] e.body = Null /\ is_present(a.body) ->
                Pushed(<<BodyMismatch(<<"/">>, None, Some(a.body[2]),
                    <<"Expected empty body but received '{}'", a.body[2]>>)>>)
           [] e.body = Null /\ ~is_present(a.body) -> Pushed(<<>>)
           [] is_present(e.body) /\ a.body = Missing ->
                Pushed(<<BodyMismatch(<<"/">>, Some(value(e.body)), None,
                    <<"Expected body '{}' but was missing", value(e.body)>>)>>)
           [] is_present(e.body) /\ a.body = Null -> Pushed(<<>>)
           [] OTHER ->
                Dispatched(compare_bodies(e.mimetype, value(e.body), value(a.body)))
    ELSE IF is_present(e.body)
         THEN Pushed(<<BodyTypeMismatch(e.mimetype, a.mimetype)>>)
         ELSE Pushed(<<>>)

\* match_body where differing content types are reported whether or not the
\* expected body is present.
match_bodyAlwaysTypeMismatch(e, a) ==
    IF e.mimetype = a.mimetype
    THEN CASE e.body = Missing -> Pushed(<<>>)
           [] e.body = Null /\ is_present(a.body) ->
                Pushed(<<BodyMismatch(<<"/">>, None, Some(a.body[2]),
                    <<"Expected empty body but received '{}'", a.body[2]>>)>>)
           [] e.body = Null /\ ~is_present(a.body) -> Pushed(<<>>)
           [] is_present(e.body) /\ a.body = Missing ->
                Pushed(<<BodyMismatch(<<"/">>, Some(value(e.body)), None,
                    <<"Expected body '{}' but was missing", value(e.body)>>)>>)
           [] OTHER ->
                Dispatched(compare_bodies(e.mimetype, value(e.body), value(a.body)))
    ELSE Pushed(<<BodyTypeMismatch(e.mimetype, a.mimetype)>>)

match_body(e, a) ==
    IF e.mimetype = a.mimetype
    THEN CASE e.body = Missing -> Pushed(<<>>)
           [] e.body = Null /\ is_present(a.body) ->
                Pushed(<<BodyMismatch(<<"/">>, None, Some(a.body[2]),
                    <<"Expected empty body but received '{}'", a.body[2]>>)>>)
           [] e.body = Null /\ ~is_present(a.body) -> Pushed(<<>>)
           [] is_present(e.body) /\ a.body = Missing ->
                Pushed(<<BodyMismatch(<<"/">>, Some(value(e.body)), None,
                    <<"Expected body '{}' but was missing", value(e.body)>>)>>)
           [] OTHER ->
                Dispatched(compare_bodies(e.mimetype, value(e.body), value(a.body)))
    ELSE IF is_present(e.body)
         THEN Pushed(<<BodyTypeMismatch(e.mimetype, a.mimetype)>>)
         ELSE Pushed(<<>>)

-----------------------------------------------------------------------------
(* Mismatch::eq (lib.rs) *)

\* The equality a derived PartialEq would give: every field is compared, the
\* description too.
eqDerived(self, other) == self = other

eq(self, other) ==
    CASE self[1] = "MethodMismatch" /\ other[1] = "MethodMismatch" ->
            self[2].expected = other[2].expected /\ self[2].actual = other[2].actual
      [] self[1] = "PathMismatch" /\ other[1] = "PathMismatch" ->
            self[2].expected = other[2].expected /\ self[2].actual = other[2].actual
      [] self[1] = "StatusMismatch" /\ other[1] = "StatusMismatch" ->
            self[2].expected = other[2].expected /\ self[2].actual = other[2].actual
      [] self[1] = "BodyTypeMismatch" /\ other[1] = "BodyTypeMismatch" ->
            self[2].expected = other[2].expected /\ self[2].actual = other[2].actual
      [] self[1] = "QueryMismatch" /\ other[1] = "QueryMismatch" ->
            /\ self[2].parameter = other[2].parameter
            /\ self[2].expected = other[2].expected
            /\ self[2].actual = other[2].actual
      [] self[1] = "HeaderMismatch" /\ other[1] = "HeaderMismatch" ->
            /\ self[2].key = other[2].key
            /\ self[2].expected = other[2].expected
            /\ self[2].actual = other[2].actual
      [] self[1] = "BodyMismatch" /\ other[1] = "BodyMismatch" ->
            /\ self[2].path = other[2].path
            /\ self[2].expected = other[2].expected
            /\ self[2].actual = other[2].actual
      [] OTHER -> FALSE

-----------------------------------------------------------------------------
(* The evaluation of one call, step by step *)

\* The iteration orders one evaluation may meet for an Option<HashMap>.
OrdersOf(map) == IF map.some THEN Orders(DOMAIN map.val) ELSE { <<>> }

QueryOf(part) == IF "query" \in DOMAIN part THEN part.query ELSE None

HeadersOf(part) == IF "headers" \in DOMAIN part THEN part.headers ELSE None

\* Fresh HashMap instances: one iteration order for each of the four maps.
FreshOrders(e, a) ==
    [eq : OrdersOf(QueryOf(e)), aq : OrdersOf(QueryOf(a)),
     eh : OrdersOf(HeadersOf(e)), ah : OrdersOf(HeadersOf(a))]

FirstStep(c) ==
    CASE c = "match_request" -> "method"
      [] c = "match_response" -> "body"
      [] c = "match_body" -> "body"
      [] c = "match_query" -> "query"
      [] c = "match_headers" -> "headers"
      [] c = "eq" -> "eq"
      [] c = "match_values" -> "values"
      [] c = "matches_with" -> "matches_with"
      [] c = "compare" -> "compare"
      [] c = "match_json" -> "match_json"
      [] c = "select_best_matcher" -> "select"

\* A short-circuiting orchestration: it returns as soon as a step has left a
\* mismatch in the accumulator.
StepAfterShortCircuit(c, step) ==
    IF mismatches # <<>> THEN "done"
    ELSE CASE c = "match_request" /\ step = "method" -> "path"
           [] c = "match_request" /\ step = "path" -> "body"
           [] c = "match_request" /\ step = "body" -> "query"
           [] c = "match_request" /\ step = "query" -> "headers"
           [] c = "match_response" /\ step = "body" -> "status"
           [] c = "match_response" /\ step = "status" -> "headers"
           [] OTHER -> "done"

\* match_request runs method, path, body, query, headers; match_response
\* runs body, status, headers; the other calls run their one step.
StepAfter(c, step) ==
    CASE c = "match_request" /\ step = "method" -> "path"
      [] c = "match_request" /\ step = "path" -> "body"
      [] c = "match_request" /\ step = "body" -> "query"
      [] c = "match_request" /\ step = "query" -> "headers"
      [] c = "match_response" /\ step = "body" -> "status"
      [] c = "match_response" /\ step = "status" -> "headers"
      [] OTHER -> "done"

MatchMethod ==
    /\ pc = "method"
    /\ mismatches' = mismatches \o match_method(expected.method, actual.method)
    /\ pc' = StepAfter(call, "method")
    /\ UNCHANGED <<call, expected, actual, order, body_calls, previous, operands, equal, ctx, returned, collaborators>>

MatchPath ==
    /\ pc = "path"
    /\ mismatches' = mismatches \o match_path(expected.path, actual.path)
    /\ pc' = StepAfter(call, "path")
    /\ UNCHANGED <<call, expected, actual, order, body_calls, previous, operands, equal, ctx, returned, collaborators>>

MatchBody ==
    /\ pc = "body"
    /\ LET result == match_body(expected, actual)
       IN  /\ mismatches' = mismatches \o result.pushed
           /\ body_calls' = IF result.dispatched THEN body_calls + 1 ELSE body_calls
    /\ pc' = StepAfter(call, "body")
    /\ UNCHANGED <<call, expected, actual, order, previous, operands, equal, ctx, returned, collaborators>>

MatchQuery ==
    /\ pc = "query"
    /\ mismatches' = mismatches \o match_query(expected.query, actual.query, order.eq, order.aq)
    /\ pc' = StepAfter(call, "query")
    /\ UNCHANGED <<call, expected, actual, order, body_calls, previous, operands, equal, ctx, returned, collaborators>>

MatchStatus ==
    /\ pc = "status"
    /\ mismatches' = mismatches \o match_status(expected.status, actual.status)
    /\ pc' = StepAfter(call, "status")
    /\ UNCHANGED <<call, expected, actual, order, body_calls, previous, operands, equal, ctx, returned, collaborators>>

\* A panic in parse_charset_parameters unwinds the whole call: nothing is
\* returned.
MatchHeaders ==
    /\ pc = "headers"
    /\ IF match_headers_panics(expected.headers, actual.headers, order.ah)
       THEN /\ pc' = "panicked"
            /\ UNCHANGED mismatches
       ELSE /\ mismatches' = mismatches \o
                    match_headers(expected.headers, actual.headers, order.eh, order.ah)
            /\ pc' = StepAfter(call, "headers")
    /\ UNCHANGED <<call, expected, actual, order, body_calls, previous, operands, equal, ctx, returned, collaborators>>

\* The same arguments are evaluated a second time, as fresh HashMap instances.
Again ==
    /\ pc = "done"
    /\ ~previous.some
    /\ previous' = Some(mismatches)
    /\ mismatches' = <<>>
    /\ body_calls' = 0
    /\ order' \in FreshOrders(expected, actual)
    /\ pc' = FirstStep(call)
    /\ UNCHANGED <<call, expected, actual, operands, equal, ctx, returned, collaborators>>

\* Every pair of the operands is compared with Mismatch::eq.
Eq ==
    /\ pc = "eq"
    /\ equal' = [i \in 1..Len(operands) |-> [j \in 1..Len(operands) |->
                    eq(operands[i], operands[j])]]
    /\ pc' = "done"
    /\ UNCHANGED <<call, expected, actual, order, mismatches, body_calls, previous, operands,
                   ctx, returned, collaborators>>

-----------------------------------------------------------------------------
(* The arguments the calls are evaluated on *)

GET == <<"G","E","T">>

get == <<"g","e","t">>

POST == <<"P","O","S","T">>

\* A HashMap with one entry, and with two.
Map1(k, v) == k :> v

Map2(k1, v1, k2, v2) == (k1 :> v1) @@ (k2 :> v2)

EmptyMap == [k \in {} |-> <<>>]

Methods == { GET, get, POST }

Paths == { <<"/","a">>, <<"/","b">> }

Queries ==
    { None,
      Some(Map1(<<"a">>, << <<"1">> >>)),
      Some(Map2(<<"a">>, << <<"1">> >>, <<"b">>, << <<"1">> >>)) }

Headers ==
    { None,
      Some(Map1(<<"X">>, <<"1">>)),
      Some(Map1(CONTENT_TYPE, <<"t",";","c">>)) }

\* (content type, body): a missing body, a JSON document, and a text that
\* is no JSON document under a JSON content type.
Bodies ==
    { <<"text/plain", Missing>>,
      <<"application/json", Present(<<"1">>)>>,
      <<"application/json", Present(<<"[">>)>> }

Requests ==
    { [method |-> m, path |-> p, query |-> q, headers |-> h, mimetype |-> b[1], body |-> b[2]] :
        m \in Methods, p \in Paths, q \in Queries, h \in Headers, b \in Bodies }

Responses ==
    { [status |-> s, headers |-> h, mimetype |-> b[1], body |-> b[2]] :
        s \in { 200, 404 }, h \in Headers, b \in Bodies }

InitCall(c, es, as) ==
    /\ call = c
    /\ expected \in es
    /\ actual \in as
    /\ order \in FreshOrders(expected, actual)
    /\ pc = FirstStep(c)
    /\ mismatches = <<>>
    /\ body_calls = 0
    /\ previous = None
    /\ operands = <<>>
    /\ equal = <<>>
    /\ ctx = <<>>
    /\ returned = <<>>
    /\ mock_server = <<>>
    /\ broker = <<>>
    /\ verifier = <<>>
    /\ interaction = <<>>
    /\ hal = <<>>
    /\ handles = <<>>

\* match_request and match_response on every pair of messages.
Init ==
    \/ InitCall("match_request", Requests, Requests)
    \/ InitCall("match_response", Responses, Responses)

Next ==
    \/ MatchMethod
    \/ MatchPath
    \/ MatchBody
    \/ MatchQuery
    \/ MatchStatus
    \/ MatchHeaders

Spec == Init /\ [][Next]_vars

-----------------------------------------------------------------------------
(* The same arguments evaluated twice *)

TwiceQueries ==
    { None, Some(EmptyMap),
      Some(Map2(<<"a">>, << <<"1">> >>, <<"b">>, << <<"1">> >>)) }

TwiceHeaders ==
    { None, Some(EmptyMap),
      Some(Map2(<<"X">>, <<"1">>, <<"Y">>, <<"1">>)),
      Some(Map2(<<"X">>, <<"1">>, <<"x">>, <<"2">>)) }

TwiceRequests ==
    { [method |-> GET, path |-> <<"/","a">>, query |-> q, headers |-> h,
       mimetype |-> "text/plain", body |-> Missing] :
        q \in TwiceQueries, h \in TwiceHeaders }

TwiceResponses ==
    { [status |-> 200, headers |-> h, mimetype |-> "text/plain", body |-> Missing] :
        h \in TwiceHeaders }

InitTwice ==
    \/ InitCall("match_request", TwiceRequests, TwiceRequests)
    \/ InitCall("match_response", TwiceResponses, TwiceResponses)

NextTwice ==
    \/ MatchMethod
    \/ MatchPath
    \/ MatchBody
    \/ MatchQuery
    \/ MatchStatus
    \/ MatchHeaders
    \/ Again

SpecTwice == InitTwice /\ [][NextTwice]_vars

-----------------------------------------------------------------------------
(* match_body on its own *)

\* Every string over the alphabet of at most n characters.
Strings(alphabet, n) == UNION { [1..k -> alphabet] : k \in 0..n }

\* The serialisation of every JSON value, the empty text and an open bracket.
BodyTexts == { to_string(v) : v \in JsonValues } \cup { <<>>, <<"[">> }

OptionalBodies == { Missing, Null } \cup { Present(t) : t \in BodyTexts }

BodyParts ==
    { [mimetype |-> m, body |-> b] :
        m \in { "application/json", "text/plain" }, b \in OptionalBodies }

InitBody == InitCall("match_body", BodyParts, BodyParts)

NextBody == MatchBody

SpecBody == InitBody /\ [][NextBody]_vars

-----------------------------------------------------------------------------
(* match_headers on its own *)

MaxHeaderLen == 3

MaxParams == 2

\* Header values: any mix of a token character, commas and blanks.
HeaderValues == Strings({ "a", ",", " " }, MaxHeaderLen)

\* Content-Type parameters: a charset with two values, a second parameter
\* written with blanks, and a parameter without "=".
Parameters ==
    { <<"c","=","1">>, <<"c","=","2">>, <<" ","d"," ","="," ","1">>, <<"c">> }

\* Content-Type values: a media type followed by up to MaxParams parameters.
ContentTypeValues ==
    UNION { { m \o Concat([i \in 1..n |-> <<";">> \o ps[i]]) :
                m \in { <<"t">>, <<"u">> }, ps \in [1..n -> Parameters] } :
            n \in 0..MaxParams }

HeaderKeys == { <<"X">>, <<"x">>, <<"Y">> }

\* Header maps of at most two of the keys X, x and Y.
HeaderMaps ==
    { None, Some(EmptyMap) }
    \cup { Some(Map1(k, v)) : k \in HeaderKeys, v \in { <<"1">>, <<"2">> } }
    \cup UNION { { Some(Map2(k1, <<"1">>, k2, v2)) :
                     k2 \in HeaderKeys \ { k1 }, v2 \in { <<"1">>, <<"2">> } } :
                 k1 \in HeaderKeys }

\* match_headers on two values of the header X, on two Content-Type values
\* under keys in either letter case, and on every pair of header maps.
InitHeaders ==
    \/ \E e \in HeaderValues, a \in HeaderValues :
            InitCall("match_headers", { [headers |-> Some(Map1(<<"X">>, e))] },
                                      { [headers |-> Some(Map1(<<"X">>, a))] })
    \/ \E e \in ContentTypeValues, a \in ContentTypeValues,
           k \in { CONTENT_TYPE, content_type_lc } :
            InitCall("match_headers", { [headers |-> Some(Map1(CONTENT_TYPE, e))] },
                                      { [headers |-> Some(Map1(k, a))] })
    \/ \E e \in HeaderMaps, a \in HeaderMaps :
            InitCall("match_headers", { [headers |-> e] }, { [headers |-> a] })

NextHeaders == MatchHeaders

SpecHeaders == InitHeaders /\ [][NextHeaders]_vars

-----------------------------------------------------------------------------
(* match_query on its own *)

MaxValues == 2

\* Query maps: parameter a with any list of at most MaxValues values,
\* optionally with parameter b.
QueryMaps ==
    LET lists == Strings({ <<"1">>, <<"2">> }, MaxValues)
        with_a == { EmptyMap } \cup { Map1(<<"a">>, l) : l \in lists }
        with_b == { EmptyMap } \cup { Map1(<<"b">>, << v >>) : v \in { <<"1">>, <<"2">> } }
    IN  { ma @@ mb : ma \in with_a, mb \in with_b }

QueryArguments == { None } \cup { Some(m) : m \in QueryMaps }

InitQuery ==
    InitCall("match_query", { [query |-> q] : q \in QueryArguments },
                            { [query |-> q] : q \in QueryArguments })

NextQuery == MatchQuery

SpecQuery == InitQuery /\ [][NextQuery]_vars

-----------------------------------------------------------------------------
(* Mismatch::eq on its own *)

\* Two descriptions, two values of every other field.
Descriptions == { <<"first description">>, <<"second description">> }

Texts == { <<"1">>, <<"2">> }

MismatchValues ==
    { MethodMismatch(e, <<"1">>) : e \in Texts }
    \cup { PathMismatch(e, <<"1">>, d) : e \in Texts, d \in Descriptions }
    \cup { StatusMismatch(e, 200) : e \in { 200, 404 } }
    \cup { BodyTypeMismatch(e, "text/plain") : e \in { "text/plain", "application/json" } }
    \cup { QueryMismatch(p, <<"1">>, a, d) : p \in Texts, a \in Texts, d \in Descriptions }
    \cup { HeaderMismatch(<<"1">>, e, <<"1">>, d) : e \in Texts, d \in Descriptions }
    \cup { BodyMismatch(p, e, Some(<<"1">>), d) :
             p \in { <<"$">>, <<"/">> }, e \in { None, Some(<<"1">>) }, d \in Descriptions }

InitEq ==
    /\ call = "eq"
    /\ operands \in [1..3 -> MismatchValues]
    /\ expected = <<>>
    /\ actual = <<>>
    /\ order = <<>>
    /\ pc = FirstStep("eq")
    /\ mismatches = <<>>
    /\ body_calls = 0
    /\ previous = None
    /\ equal = <<>>
    /\ ctx = <<>>
    /\ returned = <<>>
    /\ mock_server = <<>>
    /\ broker = <<>>
    /\ verifier = <<>>
    /\ interaction = <<>>
    /\ hal = <<>>
    /\ handles = <<>>

NextEq == Eq

SpecEq == InitEq /\ [][NextEq]_vars

-----------------------------------------------------------------------------
(* match_values on its own *)

\* The entry of a call that is given a MatchingContext.
InitRuleCall(c, contexts, es, as) ==
    /\ call = c
    /\ ctx \in contexts
    /\ expected \in es
    /\ actual \in as
    /\ order = <<>>
    /\ pc = FirstStep(c)
    /\ mismatches = <<>>
    /\ body_calls = 0
    /\ previous = None
    /\ operands = <<>>
    /\ equal = <<>>
    /\ returned = <<>>
    /\ mock_server = <<>>
    /\ broker = <<>>
    /\ verifier = <<>>
    /\ interaction = <<>>
    /\ hal = <<>>
    /\ handles = <<>>

MatchValues ==
    /\ pc = "values"
    /\ returned' = match_values("str", <<<<"$">>, <<"a">>>>, ctx, expected, actual)
    /\ pc' = "done"
    /\ UNCHANGED <<call, expected, actual, order, mismatches, body_calls, previous, operands,
                   equal, ctx, collaborators>>

MaxRules == 3

\* Rules with five different failure messages.
StringRules == { Equality, Type, Include(<<"1">>), Integer, Boolean }

RuleLists ==
    UNION { { [rules |-> rs, rule_logic |-> l] :
                rs \in [1..n -> StringRules], l \in { "And", "Or" } } :
            n \in 0..MaxRules }

\* One rule path: the lookup path $.a itself, its parent, a wildcard, or
\* the path of a sibling.
ValueContexts ==
    { [config |-> "AllowUnexpectedKeys", matchers |-> Map1(rp, rl)] :
        rp \in { <<<<"$">>, <<"a">>>>, <<<<"$">>>>, <<<<"$">>, WILDCARD>>, <<<<"$">>, <<"b">>>> },
        rl \in RuleLists }

ValueTexts == { <<"1">>, <<"a","1">>, <<"t","r","u","e">> }

InitValues == InitRuleCall("match_values", ValueContexts, ValueTexts, ValueTexts)

NextValues == MatchValues

SpecValues == InitValues /\ [][NextValues]_vars

-----------------------------------------------------------------------------
(* Matches::matches_with on its own *)

\* ctx holds the implementation, the rule and the cascaded flag of the call.
MatchesWith ==
    /\ pc = "matches_with"
    /\ returned' = matches_with(ctx.E, expected, actual, ctx.matcher, ctx.cascaded)
    /\ pc' = "done"
    /\ UNCHANGED <<call, expected, actual, order, mismatches, body_calls, previous, operands,
                   equal, ctx, collaborators>>

\* The largest size a MinType, MaxType or MinMaxType rule asks for.
MaxSize == 3

SizeRules ==
    { MinType(n) : n \in 0..MaxSize } \cup { MaxType(n) : n \in 0..MaxSize }
    \cup { MinMaxType(n, m) : n \in 0..MaxSize, m \in 0..MaxSize }

ValueRules == SizeRules \cup { Equality, Type, NullRule, Integer, Decimal }

\* The JSON values of the rule-driven calls: those of the bodies, a decimal
\* and a boolean.
RuleJsonValues == JsonValues \cup { <<"Number", 1, 5>>, <<"Bool", TRUE>> }

ExpectedSamples ==
    { v \in RuleJsonValues : v[1] # "Array" }
    \cup { <<"Array", <<>>>>, <<"Array", <<<<"Number", 1>>>>>> }

InitMatchesWithValue ==
    InitRuleCall("matches_with",
                 { [E |-> "Value", matcher |-> r, cascaded |-> c] :
                     r \in ValueRules, c \in BOOLEAN },
                 ExpectedSamples, RuleJsonValues)

NextMatchesWith == MatchesWith

SpecMatchesWithValue == InitMatchesWithValue /\ [][NextMatchesWith]_vars

\* The integers of the scalar calls: the ends of every status class, and
\* values of more than sixteen bits.
IntegerSamples ==
    { 0, 1, 99, 100, 199, 200, 299, 300, 399, 400, 404, 499, 500, 599, 600, 65535 }

WideSamples == { 65536, 65636, 65736, 65836, 65940, 66036, 66136, 131272 }

DecimalSamples == { <<1, 5>>, <<2, 0>> }

StatusRules ==
    { StatusCode(c) : c \in HttpStatusClasses }
    \cup { StatusCode(<<"StatusCodes", {200, 404}>>) }

NumberRules ==
    { Type, MinType(1), MaxType(1), MinMaxType(1, 2), Equality, NumberRule, Integer, Decimal,
      NullRule }
    \cup StatusRules

ScalarCall(impl, es, as) ==
    InitRuleCall("matches_with",
                 { [E |-> impl, matcher |-> r, cascaded |-> FALSE] : r \in NumberRules },
                 es, as)

InitMatchesWithNumber ==
    \/ ScalarCall("u64 for u64", IntegerSamples, IntegerSamples \cup WideSamples)
    \/ ScalarCall("u64 for &str", { <<"2", "0", "0">>, <<"a">> },
                  IntegerSamples \cup WideSamples)
    \/ ScalarCall("u16 for u16", { 200, 404 }, IntegerSamples)
    \/ ScalarCall("u16 for &str", { <<"2", "0", "0">> }, IntegerSamples)
    \/ ScalarCall("f64 for u64", IntegerSamples, DecimalSamples)
    \/ ScalarCall("f64 for f64", DecimalSamples, DecimalSamples)
    \/ ScalarCall("u64 for f64", DecimalSamples, IntegerSamples)
    \/ InitRuleCall("matches_with",
                    { [E |-> "Value", matcher |-> r, cascaded |-> FALSE] :
                        r \in { Type, Equality, Integer, Decimal } },
                    RuleJsonValues, RuleJsonValues)

SpecMatchesWithNumber == InitMatchesWithNumber /\ [][NextMatchesWith]_vars

\* compare at the root of two parsed documents.
Compare ==
    /\ pc = "compare"
    /\ returned' = compare(<<<<"$">>>>, expected, actual, ctx)
    /\ pc' = "done"
    /\ UNCHANGED <<call, expected, actual, order, mismatches, body_calls, previous, operands,
                   equal, ctx, collaborators>>

\* The maps over the keys S with values in V.
MapsOver(S, V) == UNION { [K -> V] : K \in SUBSET S }

MapLeaves == { <<"Number", 1>>, <<"Number", 2>> }

InnerValues ==
    MapLeaves
    \cup { <<"Object", m>> : m \in MapsOver({ <<"a">> }, MapLeaves) }
    \cup { <<"Array", <<>>>>, <<"Array", <<<<"Number", 1>>>>>> }

\* The documents of the map comparisons: maps of up to two entries, and a
\* list.
MapDocuments ==
    { <<"Object", m>> : m \in MapsOver({ <<"a">>, <<"b">> }, InnerValues) }
    \cup { <<"Array", <<<<"Number", 1>>>>>> }

\* No rule, a rule on one entry, a rule on every entry, a rule on the root.
MapRuleSets ==
    { <<>>,
      Map1(<<<<"$">>, <<"a">>>>, [rules |-> <<Type>>, rule_logic |-> "And"]),
      Map1(<<<<"$">>, WILDCARD>>, [rules |-> <<Equality, Type>>, rule_logic |-> "And"]),
      Map1(<<<<"$">>>>, [rules |-> <<MinType(1)>>, rule_logic |-> "And"]) }

DiffConfigs == { "AllowUnexpectedKeys", "NoUnexpectedKeys" }

InitMaps ==
    InitRuleCall("compare",
                 { [config |-> c, matchers |-> r] : c \in DiffConfigs, r \in MapRuleSets },
                 MapDocuments, MapDocuments)

NextMaps == Compare

SpecMaps == InitMaps /\ [][NextMaps]_vars

\* select_best_matcher for the lookup path held in expected.
SelectBestMatcher ==
    /\ pc = "select"
    /\ returned' = select_best_matcher(ctx, expected)
    /\ pc' = "done"
    /\ UNCHANGED <<call, expected, actual, order, mismatches, body_calls, previous, operands,
                   equal, ctx, collaborators>>

Regex(regex) == <<"Regex", regex>>

\* A category where the rule list of every rule path holds one Regex that
\* names it.
Segments(names) == [i \in 1..Len(names) |-> <<names[i]>>]

Category(entries) ==
    [config |-> "AllowUnexpectedKeys",
     matchers |-> [rp \in { Segments(en[1]) : en \in entries } |->
                      [rules |-> <<Regex((CHOOSE en \in entries : Segments(en[1]) = rp)[2])>>,
                       rule_logic |-> "And"]]]

\* The body category of select_best_matcher_selects_most_appropriate_by_weight.
ByWeightMatchers ==
    Category({
        << <<"$">>, "1" >>,
        << <<"$", "item1">>, "3" >>,
        << <<"$", "item2">>, "4" >>,
        << <<"$", "item1", "level">>, "6" >>,
        << <<"$", "item1", "level", "1">>, "7" >>,
        << <<"$", "item1", "level", "1", "id">>, "8" >>,
        << <<"$", "item1", "level", "1", "name">>, "9" >>,
        << <<"$", "item1", "level", "2">>, "10" >>,
        << <<"$", "item1", "level", "2", "id">>, "11" >>,
        << <<"$", "item1", "level", "*", "id">>, "12" >>,
        << <<"$", "*", "level", "*", "id">>, "13" >> })

\* The lookups of that test and the Regex each expects.
ByWeightLookups ==
    { << <<"$">>, "1" >>,
      << <<"$", "a">>, "1" >>,
      << <<"$", "item1">>, "3" >>,
      << <<"$", "item2">>, "4" >>,
      << <<"$", "item3">>, "1" >>,
      << <<"$", "item1", "level">>, "6" >>,
      << <<"$", "item1", "level", "1">>, "7" >>,
      << <<"$", "item1", "level", "2">>, "10" >>,
      << <<"$", "item1", "level", "1", "id">>, "8" >>,
      << <<"$", "item1", "level", "1", "name">>, "9" >>,
      << <<"$", "item1", "level", "1", "other">>, "7" >>,
      << <<"$", "item1", "level", "2", "id">>, "11" >>,
      << <<"$", "item1", "level", "3", "id">>, "12" >>,
      << <<"$", "item2", "level", "1", "id">>, "13" >>,
      << <<"$", "item2", "level", "3", "id">>, "13" >> }

\* The body category of
\* select_best_matcher_selects_most_appropriate_when_weight_is_equal.
EqualWeightMatchers ==
    Category({
        << <<"$", "animals">>, "1" >>,
        << <<"$", "animals", "*">>, "2" >>,
        << <<"$", "animals", "*", "alligator", "@phoneNumber">>, "3" >> })

EqualWeightLookups == { << <<"$", "animals", "0">>, "2" >> }

\* The most rule paths of a category drawn from SmallRulePaths.
MaxRulePaths == 3

SmallRulePaths ==
    << <<"$">>, <<"$", "a">>, <<"$", "b">>, <<"$", "*">>, <<"$", "a", "b">>, <<"$", "a", "*">>,
       <<"$", "*", "b">>, <<"$", "*", "*">> >>

SmallLookups ==
    { <<"$">>, <<"$", "a">>, <<"$", "b">>, <<"$", "a", "b">>, <<"$", "b", "b">>,
      <<"$", "a", "c">>, <<"$", "a", "b", "c">> }

\* The Regex of a small rule path is its position in SmallRulePaths.
SmallCategories ==
    { Category({ <<SmallRulePaths[i], i>> : i \in S }) :
        S \in { T \in SUBSET (1..Len(SmallRulePaths)) : Cardinality(T) <= MaxRulePaths } }

InitSelect ==
    \/ InitRuleCall("select_best_matcher", { ByWeightMatchers },
                    { Segments(l[1]) : l \in ByWeightLookups }, { <<>> })
    \/ InitRuleCall("select_best_matcher", { EqualWeightMatchers },
                    { Segments(l[1]) : l \in EqualWeightLookups }, { <<>> })
    \/ InitRuleCall("select_best_matcher", SmallCategories,
                    { Segments(l) : l \in SmallLookups }, { <<>> })

NextSelect == SelectBestMatcher

SpecSelect == InitSelect /\ [][NextSelect]_vars

\* match_json on two body texts.
MatchJson ==
    /\ pc = "match_json"
    /\ returned' = match_json(expected, actual, ctx)
    /\ pc' = "done"
    /\ UNCHANGED <<call, expected, actual, order, mismatches, body_calls, previous, operands,
                   equal, ctx, collaborators>>

ValidTexts == { to_string(v) : v \in JsonValues }

\* The empty text and an open bracket.
InvalidTexts == { <<>>, <<"[">> }

InitJson ==
    InitRuleCall("match_json", { with_config(c) : c \in DiffConfigs },
                 ValidTexts \cup InvalidTexts, ValidTexts \cup InvalidTexts)

NextJson == MatchJson

SpecJson == InitJson /\ [][NextJson]_vars

\* The documents of the list comparisons: lists of scalars, and lists with a
\* list among their elements.
ListDocuments ==
    { <<"Array", l>> : l \in JsonLists }
    \cup { <<"Array", <<<<"Array", <<<<"Number", 1>>>>>>>>>>,
           <<"Array", <<<<"Array", <<<<"Number", 2>>, <<"Number", 1>>>>>>, <<"Number", 1>>>>>>,
           <<"Array", <<<<"Array", <<>>>>, <<"Number", 2>>>>>> }

InitLists ==
    InitRuleCall("compare", { with_config(c) : c \in DiffConfigs },
                 ListDocuments, ListDocuments)

SpecLists == InitLists /\ [][NextMaps]_vars

-----------------------------------------------------------------------------
(* MockServer::shutdown and MockServer::clone (mock_server.rs) *)

\* A MockServer is its shutdown_tx, an Option of the oneshot Sender.  The
\* Receiver is awaited by the server future; it is waiting, signalled once
\* the signal has arrived, or dropped with the future.
MockServer(shutdown_tx) == [shutdown_tx |-> shutdown_tx]

\* A clone that keeps the sender of the server it is cloned from.
cloneKeepsSender(self) == MockServer(self.shutdown_tx)

\* impl Clone for MockServer
clone(self) == MockServer(None)

\* The server after the call, the Result, and whether the signal was sent.
shutdown(self, receiver) ==
    IF self.shutdown_tx.some
    THEN [self |-> MockServer(None),
          result |-> IF receiver = "waiting" THEN Ok
                     ELSE Err("Problem sending shutdown signal to mock server"),
          sent |-> receiver = "waiting"]
    ELSE [self |-> self, result |-> Err("Mock server already shut down"), sent |-> FALSE]

\* The most MockServer values, and the most shutdown calls of one run.
MaxServers == 3

MaxCalls == 4

\* The matching functions are not under evaluation.
Idle(c) ==
    /\ call = c
    /\ expected = <<>>
    /\ actual = <<>>
    /\ order = <<>>
    /\ pc = "idle"
    /\ mismatches = <<>>
    /\ body_calls = 0
    /\ previous = None
    /\ operands = <<>>
    /\ equal = <<>>
    /\ ctx = <<>>
    /\ returned = <<>>

\* MockServer::new: the first server holds the sender.
InitServer ==
    /\ Idle("shutdown")
    /\ mock_server = [servers |-> <<MockServer(Some("shutdown_tx"))>>,
                      receiver |-> "waiting",
                      calls |-> <<>>]
    /\ broker = <<>>
    /\ verifier = <<>>
    /\ interaction = <<>>
    /\ hal = <<>>
    /\ handles = <<>>

CloneServer(i) ==
    /\ Len(mock_server.servers) < MaxServers
    /\ mock_server' = [mock_server EXCEPT
                          !.servers = Append(@, clone(mock_server.servers[i]))]
    /\ UNCHANGED <<matching, broker, verifier, interaction, hal, handles>>

Shutdown(i) ==
    /\ Len(mock_server.calls) < MaxCalls
    /\ LET r == shutdown(mock_server.servers[i], mock_server.receiver)
       IN  mock_server' = [mock_server EXCEPT
                              !.servers[i] = r.self,
                              !.receiver = IF r.sent THEN "signalled" ELSE @,
                              !.calls = Append(@, [server |-> i, result |-> r.result,
                                                   sent |-> r.sent])]
    /\ UNCHANGED <<matching, broker, verifier, interaction, hal, handles>>

\* The server future ends before any signal, and its Receiver with it.
DropReceiver ==
    /\ mock_server.receiver = "waiting"
    /\ mock_server' = [mock_server EXCEPT !.receiver = "dropped"]
    /\ UNCHANGED <<matching, broker, verifier, interaction, hal, handles>>

NextServer ==
    \/ \E i \in 1..Len(mock_server.servers) : CloneServer(i)
    \/ \E i \in 1..Len(mock_server.servers) : Shutdown(i)
    \/ DropReceiver

SpecServer == InitServer /\ [][NextServer]_vars

-----------------------------------------------------------------------------
(* with_retries (pact_broker.rs) *)

\* What send() gives: Ok of a response with its status, Err of a status
\* error, or Err of an error without a status.
SendResults ==
    { <<"Ok", 200>>, <<"Ok", 404>>, <<"Ok", 503>>,
      <<"Err", "status", 404>>, <<"Err", "status", 503>>, <<"Err", "connect">> }

\* StatusCode::is_server_error
is_server_error(status) == 500 <= status /\ status <= 599

\* The two arms of the fold that send again.
retryable(response) ==
    \/ response[1] = "Ok" /\ is_server_error(response[2])
    \/ response[1] = "Err" /\ response[2] = "status" /\ is_server_error(response[3])

\* 10_u64.pow(attempt) is above u64::MAX from this attempt on.
FirstOverflow == 20

\* retries is a u8; the runs of this model go up to MaxRetries.
MaxRetries == 21

\* overflow_checks: whether the build panics on an arithmetic overflow (a
\* debug build) or wraps (a release build).
InitBroker ==
    /\ Idle("with_retries")
    /\ mock_server = <<>>
    /\ verifier = <<>>
    /\ interaction = <<>>
    /\ hal = <<>>
    /\ handles = <<>>
    /\ \E n \in 0..MaxRetries, c \in BOOLEAN, o \in BOOLEAN :
           broker = [retries |-> n, cloneable |-> c, overflow_checks |-> o,
                     attempt |-> 1, response |-> None, request |-> c,
                     requests |-> 0, pc |-> "start", result |-> None]

\* request.try_clone() is None: the request is sent once.
SendOnce ==
    /\ broker.pc = "start"
    /\ ~broker.cloneable
    /\ \E r \in SendResults :
           broker' = [broker EXCEPT !.requests = @ + 1, !.result = Some(r), !.pc = "done"]
    /\ UNCHANGED <<matching, mock_server, verifier, interaction, hal, handles>>

StartFold ==
    /\ broker.pc = "start"
    /\ broker.cloneable
    /\ broker' = [broker EXCEPT !.pc = "fold"]
    /\ UNCHANGED <<matching, mock_server, verifier, interaction, hal, handles>>

\* One step of the fold over 1..=retries, with its sleep and its send.
Attempt ==
    /\ broker.pc = "fold"
    /\ broker.attempt <= broker.retries
    /\ \/ /\ ~broker.request
          /\ broker' = [broker EXCEPT !.attempt = @ + 1]
       \/ /\ broker.request
          /\ ~broker.response.some
          /\ \E r \in SendResults :
                 broker' = [broker EXCEPT !.attempt = @ + 1, !.response = Some(r),
                                          !.requests = @ + 1]
       \/ /\ broker.request
          /\ broker.response.some
          /\ ~retryable(broker.response.val)
          /\ broker' = [broker EXCEPT !.attempt = @ + 1, !.request = FALSE]
       \/ /\ broker.request
          /\ broker.response.some
          /\ retryable(broker.response.val)
          /\ IF broker.attempt >= FirstOverflow /\ broker.overflow_checks
             THEN broker' = [broker EXCEPT !.pc = "panicked"]
             ELSE \E r \in SendResults :
                      broker' = [broker EXCEPT !.attempt = @ + 1, !.response = Some(r),
                                               !.requests = @ + 1]
    /\ UNCHANGED <<matching, mock_server, verifier, interaction, hal, handles>>

\* .await.0.unwrap()
EndFold ==
    /\ broker.pc = "fold"
    /\ broker.attempt > broker.retries
    /\ broker' = IF broker.response.some
                 THEN [broker EXCEPT !.result = broker.response, !.pc = "done"]
                 ELSE [broker EXCEPT !.pc = "panicked"]
    /\ UNCHANGED <<matching, mock_server, verifier, interaction, hal, handles>>

NextBroker == SendOnce \/ StartFold \/ Attempt \/ EndFold

SpecBroker == InitBroker /\ [][NextBroker]_vars

-----------------------------------------------------------------------------
(* MockServer::mismatches and MockServer::to_json (mock_server.rs) *)

\* A MatchResult is <<variant, request>>; the response of a RequestMatch and
\* the mismatches of a RequestMismatch play no part. A request is its method
\* and path. Here the server is its pact (the requests of its interactions),
\* the matches recorded so far, and what the last calls of mismatches and
\* to_json returned, each with the matches it was called on.
matched(m) == m[1] = "RequestMatch"

cors_preflight(m) == m[1] = "RequestNotFound" /\ m[2].method = "OPTIONS"

\* mismatches that takes the requests of the RequestMatch results only.
mock_server_mismatchesMatchedOnly(self) ==
    LET kept == SelectSeq(self.matches, LAMBDA m : ~matched(m) /\ ~cors_preflight(m))
        with_request == SelectSeq(self.matches, LAMBDA m : m[1] = "RequestMatch")
        requests == { with_request[k][2] : k \in 1..Len(with_request) }
        absent == SelectSeq(self.pact, LAMBDA req : req \notin requests)
    IN  kept \o [k \in 1..Len(absent) |-> <<"MissingRequest", absent[k]>>]

\* MockServer::mismatches
mock_server_mismatches(self) ==
    LET kept == SelectSeq(self.matches, LAMBDA m : ~matched(m) /\ ~cors_preflight(m))
        with_request == SelectSeq(self.matches,
                           LAMBDA m : m[1] \in {"RequestMatch", "RequestMismatch"})
        requests == { with_request[k][2] : k \in 1..Len(with_request) }
        absent == SelectSeq(self.pact, LAMBDA req : req \notin requests)
    IN  kept \o [k \in 1..Len(absent) |-> <<"MissingRequest", absent[k]>>]

\* The status of MockServer::to_json.
to_json_status(self) == IF mock_server_mismatches(self) = <<>> THEN "ok" ELSE "error"

MaxMatches == 3

Hello == [method |-> "GET", path |-> "/hello"]

Goodbye == [method |-> "GET", path |-> "/goodbye"]

\* The pacts: one or two interactions, the same request twice among them.
ServerPacts == { <<Hello>>, <<Hello, Goodbye>>, <<Goodbye, Hello>>, <<Hello, Hello>> }

\* What the server records: the request of the interaction that matched or
\* came closest, or the request received when no interaction came close.
RecordedResults ==
    { <<"RequestMatch", Hello>>, <<"RequestMatch", Goodbye>>,
      <<"RequestMismatch", Hello>>, <<"RequestNotFound", Goodbye>>,
      <<"RequestNotFound", [method |-> "OPTIONS", path |-> "/hello"]>> }

InitMismatches ==
    /\ Idle("mismatches")
    /\ broker = <<>>
    /\ verifier = <<>>
    /\ interaction = <<>>
    /\ hal = <<>>
    /\ handles = <<>>
    /\ \E pact \in ServerPacts :
          mock_server = [pact |-> pact, matches |-> <<>>,
                         returned |-> None, status |-> None]

\* The server has answered a request and recorded the result.
RecordMatch(m) ==
    /\ Len(mock_server.matches) < MaxMatches
    /\ mock_server' = [mock_server EXCEPT !.matches = Append(@, m)]
    /\ UNCHANGED <<matching, broker, verifier, interaction, hal, handles>>

CallMismatches ==
    /\ mock_server' = [mock_server EXCEPT
                          !.returned = Some([matches |-> mock_server.matches,
                                             list |-> mock_server_mismatches(mock_server)])]
    /\ UNCHANGED <<matching, broker, verifier, interaction, hal, handles>>

CallToJson ==
    /\ mock_server' = [mock_server EXCEPT
                          !.status = Some([matches |-> mock_server.matches,
                                           status |-> to_json_status(mock_server)])]
    /\ UNCHANGED <<matching, broker, verifier, interaction, hal, handles>>

NextMismatches ==
    \/ \E m \in RecordedResults : RecordMatch(m)
    \/ CallMismatches
    \/ CallToJson

SpecMismatches == InitMismatches /\ [][NextMismatches]_vars

-----------------------------------------------------------------------------
(* verify_interaction (pact_verifier/src/lib.rs) *)

\* The interaction under verification: its provider states, each with what
\* its setup and teardown handlers answer; whether the executor enables
\* teardown; its kind and what the provider verification returns; and the
\* run: the handler results collected so far, the calls made in order
\* (events), the verification result and the returned result.
MismatchResultError(message) == Err(<<"Error", message>>)

\* execute_state_change: the handler is called, and its error becomes a
\* MismatchResult::Error.
execute_state_change(provider_state, setup) ==
    LET result == IF setup THEN provider_state.setup ELSE provider_state.teardown
    IN  [event |-> <<IF setup THEN "setup" ELSE "teardown", provider_state.name>>,
         result |-> IF result = "ok" THEN Ok ELSE MismatchResultError(result)]

\* Only the first handler result is looked at.
any_is_errFirstOnly(results) == results # <<>> /\ ~results[1].ok

any_is_err(results) == \E k \in 1..Len(results) : ~results[k].ok

\* Teardown runs whether or not the executor enables it.
runs_teardownAlways(provider_states, teardown) == provider_states # <<>>

runs_teardown(provider_states, teardown) == provider_states # <<>> /\ teardown

\* One setup handler, the next in the order of the provider states.
SetupState ==
    /\ interaction.pc = "setup"
    /\ Len(interaction.sc_results) < Len(interaction.provider_states)
    /\ LET change == execute_state_change(
                         interaction.provider_states[Len(interaction.sc_results) + 1], TRUE)
       IN  interaction' = [interaction EXCEPT
                              !.sc_results = Append(@, change.result),
                              !.events = Append(@, change.event)]
    /\ UNCHANGED <<matching, mock_server, broker, verifier, hal, handles>>

\* All setup handlers have answered.
AfterSetup ==
    /\ interaction.pc = "setup"
    /\ Len(interaction.sc_results) = Len(interaction.provider_states)
    /\ IF any_is_err(interaction.sc_results)
       THEN interaction' = [interaction EXCEPT
                !.pc = "done",
                !.returned = Some(MismatchResultError(
                    "One or more of the state change handlers has failed"))]
       ELSE interaction' = [interaction EXCEPT !.pc = "verify"]
    /\ UNCHANGED <<matching, mock_server, broker, verifier, hal, handles>>

\* The verification: the provider is asked when the interaction is of a
\* kind that can be verified.
VerifyFromProvider ==
    /\ interaction.pc = "verify"
    /\ LET verifiable == interaction.kind \in {"http", "message", "sync_message"}
           result == IF verifiable THEN interaction.provider
                     ELSE MismatchResultError("No interaction was verified")
           after == IF runs_teardown(interaction.provider_states, interaction.teardown)
                    THEN "teardown" ELSE "done"
       IN  interaction' = [interaction EXCEPT
                              !.pc = after,
                              !.events = IF verifiable THEN Append(@, <<"request", interaction.kind>>)
                                         ELSE @,
                              !.result = Some(result),
                              !.returned = IF after = "done" THEN Some(result) ELSE @]
    /\ UNCHANGED <<matching, mock_server, broker, verifier, hal, handles>>

\* One teardown handler, the next in the order of the provider states.
TeardownState ==
    /\ interaction.pc = "teardown"
    /\ Len(interaction.sc_teardown_result) < Len(interaction.provider_states)
    /\ LET change == execute_state_change(
                         interaction.provider_states[Len(interaction.sc_teardown_result) + 1],
                         FALSE)
       IN  interaction' = [interaction EXCEPT
                              !.sc_teardown_result = Append(@, change.result),
                              !.events = Append(@, change.event)]
    /\ UNCHANGED <<matching, mock_server, broker, verifier, hal, handles>>

\* All teardown handlers have answered.
AfterTeardown ==
    /\ interaction.pc = "teardown"
    /\ Len(interaction.sc_teardown_result) = Len(interaction.provider_states)
    /\ interaction' = [interaction EXCEPT
            !.pc = "done",
            !.returned =
                IF any_is_err(interaction.sc_teardown_result)
                THEN Some(MismatchResultError(
                       "One or more of the state change handlers has failed during teardown phase"))
                ELSE interaction.result]
    /\ UNCHANGED <<matching, mock_server, broker, verifier, hal, handles>>

MaxStates == 2

HandlerResults == {"ok", "handler failed"}

ProviderResults == {Ok, Err(<<"Mismatches", "status">>), MismatchResultError("connection refused")}

InitInteraction ==
    /\ Idle("verify_interaction")
    /\ mock_server = <<>>
    /\ broker = <<>>
    /\ verifier = <<>>
    /\ hal = <<>>
    /\ handles = <<>>
    /\ \E n \in 0..MaxStates, teardown \in BOOLEAN,
          kind \in {"http", "message", "sync_message", "other"},
          provider \in ProviderResults :
         \E setups \in [1..n -> HandlerResults], teardowns \in [1..n -> HandlerResults] :
           interaction = [provider_states |->
                             [k \in 1..n |-> [name |-> k, setup |-> setups[k],
                                              teardown |-> teardowns[k]]],
                          teardown |-> teardown,
                          kind |-> kind,
                          provider |-> provider,
                          sc_results |-> <<>>,
                          sc_teardown_result |-> <<>>,
                          events |-> <<>>,
                          result |-> None,
                          returned |-> None,
                          pc |-> "setup"]

NextInteraction ==
    SetupState \/ AfterSetup \/ VerifyFromProvider \/ TeardownState \/ AfterTeardown

SpecInteraction == InitInteraction /\ [][NextInteraction]_vars

-----------------------------------------------------------------------------
(* verify_provider_async (pact_verifier/src/lib.rs) *)

VERIFICATION_NOTICE_BEFORE == "before_verification"

VERIFICATION_NOTICE_AFTER_SUCCESSFUL_RESULT_AND_PUBLISH ==
    "after_verification:success_true_published_true"

VERIFICATION_NOTICE_AFTER_SUCCESSFUL_RESULT_AND_NO_PUBLISH ==
    "after_verification:success_true_published_false"

VERIFICATION_NOTICE_AFTER_ERROR_RESULT_AND_PUBLISH ==
    "after_verification:success_false_published_true"

VERIFICATION_NOTICE_AFTER_ERROR_RESULT_AND_NO_PUBLISH ==
    "after_verification:success_false_published_false"

\* The stage comes out when there is a context; every context of this model
\* holds one notice for every stage, and the notice names its pact.
display_notices(context, stage) ==
    IF context.some THEN <<[pact |-> context.val.pact, when |-> stage]>> ELSE <<>>

\* verify_pact_internal with the pending flag of the pact alone.
verify_pact_internalPactPendingOnly(pact, pending) ==
    LET kept == SelectSeq(pact.interactions, LAMBDA i : i.passes_filter)
    IN  [k \in 1..Len(kept) |->
            [interaction_id |-> kept[k].id,
             description |-> kept[k].description,
             result |-> kept[k].outcome,
             pending |-> pending]]

\* The outcome of verify_interaction is a field of the interaction; the
\* interactions that filter_interaction rejects are left out.
verify_pact_internal(pact, pending) ==
    LET kept == SelectSeq(pact.interactions, LAMBDA i : i.passes_filter)
    IN  [k \in 1..Len(kept) |->
            [interaction_id |-> kept[k].id,
             description |-> kept[k].description,
             result |-> kept[k].outcome,
             pending |-> pending \/ kept[k].pending]]

\* The TestResult that publish_result hands to publish_verification_results.
test_result(results) ==
    IF \A k \in 1..Len(results) : results[k][2].ok
    THEN <<"Ok", [k \in 1..Len(results) |-> results[k][1]]>>
    ELSE <<"Failed", [k \in 1..Len(results) |->
                        <<results[k][1],
                          IF results[k][2].ok THEN None ELSE Some(results[k][2].err)>>]>>

\* Only the result of a pact from a BrokerUrl source is published.
publish_result(results, source) ==
    IF source.kind = "BrokerUrl"
    THEN <<[source |-> source, result |-> test_result(results)]>>
    ELSE <<>>

\* The interactions of pact p that failed, as (description, error) pairs,
\* pending or not as asked.
failures(verified, pending) ==
    LET failed == SelectSeq(verified, LAMBDA r : ~r.result.ok /\ r.pending = pending)
    IN  [k \in 1..Len(failed) |-> <<failed[k].description, failed[k].result.err>>]

\* One turn of the loop over pact_results.
VerifyPact ==
    /\ verifier.pc = "loop"
    /\ verifier.index <= Len(verifier.pact_results)
    /\ LET pact_result == verifier.pact_results[verifier.index]
           pact == pact_result.pact
           context == pact.context
           pending == IF context.some THEN context.val.pending ELSE FALSE
           verified == verify_pact_internal(pact, pending)
           results == verifier.results
                      \o [k \in 1..Len(verified) |->
                             <<verified[k].interaction_id, verified[k].result>>]
           errors == verifier.errors \o failures(verified, FALSE)
           pending_errors == verifier.pending_errors \o failures(verified, TRUE)
           before == display_notices(context, VERIFICATION_NOTICE_BEFORE)
       IN  CASE ~pact_result.ok ->
                    verifier' = [verifier EXCEPT
                        !.index = @ + 1,
                        !.errors = Append(@, <<(<<"Failed to load pact">>), <<"Error", "load">> >>)]
             [] pact_result.ok /\ ~pact.plugins_load ->
                    verifier' = [verifier EXCEPT !.pc = "done", !.result = Err("load_plugin")]
             [] pact_result.ok /\ pact.plugins_load /\ pact.interactions = <<>> ->
                    verifier' = [verifier EXCEPT
                        !.index = @ + 1,
                        !.notices = @ \o before]
             [] pact_result.ok /\ pact.plugins_load /\ pact.interactions # <<>> ->
                    verifier' = [verifier EXCEPT
                        !.index = @ + 1,
                        !.results = results,
                        !.errors = errors,
                        !.pending_errors = pending_errors,
                        !.published =
                            @ \o (IF verifier.publish
                                  THEN publish_result(results, pact.source)
                                  ELSE <<>>),
                        !.notices = @ \o
                            (before \o
                            (IF verifier.publish
                             THEN IF errors # <<>> \/ pending_errors # <<>>
                                  THEN display_notices(context,
                                         VERIFICATION_NOTICE_AFTER_ERROR_RESULT_AND_PUBLISH)
                                  ELSE display_notices(context,
                                         VERIFICATION_NOTICE_AFTER_SUCCESSFUL_RESULT_AND_PUBLISH)
                             ELSE IF errors # <<>> \/ pending_errors = <<>>
                                  THEN display_notices(context,
                                         VERIFICATION_NOTICE_AFTER_ERROR_RESULT_AND_NO_PUBLISH)
                                  ELSE display_notices(context,
                                         VERIFICATION_NOTICE_AFTER_SUCCESSFUL_RESULT_AND_NO_PUBLISH)))]
    /\ UNCHANGED <<matching, mock_server, broker, interaction, hal, handles>>

\* After the loop: Ok(false) when errors holds anything, else Ok(true).
VerifyEnd ==
    /\ verifier.pc = "loop"
    /\ verifier.index > Len(verifier.pact_results)
    /\ verifier' = [verifier EXCEPT
                       !.pc = "done",
                       !.result = [ok |-> TRUE, val |-> verifier.errors = <<>>]]
    /\ UNCHANGED <<matching, mock_server, broker, interaction, hal, handles>>

MaxPacts == 2

\* What verify_interaction makes of an interaction, whether the interaction
\* is pending, and whether it passes the filter.
InteractionKinds ==
    [ok |-> [outcome |-> Ok, pending |-> FALSE, passes_filter |-> TRUE],
     fail |-> [outcome |-> Err(<<"Error", "mismatch">>), pending |-> FALSE, passes_filter |-> TRUE],
     failP |-> [outcome |-> Err(<<"Error", "mismatch">>), pending |-> TRUE, passes_filter |-> TRUE],
     skip |-> [outcome |-> Err(<<"Error", "mismatch">>), pending |-> FALSE, passes_filter |-> FALSE]]

InteractionLists ==
    {<<"ok">>, <<"fail">>, <<"failP">>, <<"ok", "fail">>, <<"skip">>}

\* load: the pact could be fetched; plugins: its plugins could be loaded;
\* context: 0 for none (a pact read from a file), 1 for a context that is not
\* pending, 2 for a pending one (pacts fetched from a broker).
PactKinds ==
    {[load |-> FALSE, plugins |-> TRUE, context |-> 1, kinds |-> <<"ok">>],
     [load |-> TRUE, plugins |-> FALSE, context |-> 1, kinds |-> <<"ok">>],
     [load |-> TRUE, plugins |-> TRUE, context |-> 1, kinds |-> <<>>]}
    \cup [load : {TRUE}, plugins : {TRUE}, context : 0..2, kinds : InteractionLists]

\* The p-th pact result of a run. Pacts of a broker have interaction ids.
PactResult(p, kind) ==
    [ok |-> kind.load,
     pact |->
        [plugins_load |-> kind.plugins,
         context |-> IF kind.context = 0 THEN None
                     ELSE Some([pact |-> p, pending |-> kind.context = 2]),
         source |-> [kind |-> IF kind.context = 0 THEN "File" ELSE "BrokerUrl",
                     pact |-> p],
         interactions |->
            [i \in 1..Len(kind.kinds) |->
                [id |-> IF kind.context = 0 THEN None ELSE Some(<<p, i>>),
                 description |-> <<"interaction", p, i>>,
                 outcome |-> InteractionKinds[kind.kinds[i]].outcome,
                 pending |-> InteractionKinds[kind.kinds[i]].pending,
                 passes_filter |-> InteractionKinds[kind.kinds[i]].passes_filter]]]]

InitVerify ==
    /\ Idle("verify_provider_async")
    /\ mock_server = <<>>
    /\ broker = <<>>
    /\ interaction = <<>>
    /\ hal = <<>>
    /\ handles = <<>>
    /\ \E n \in 0..MaxPacts, publish \in BOOLEAN :
         \E kinds \in [1..n -> PactKinds] :
           verifier = [pact_results |-> [p \in 1..n |-> PactResult(p, kinds[p])],
                       publish |-> publish,
                       index |-> 1,
                       results |-> <<>>,
                       errors |-> <<>>,
                       pending_errors |-> <<>>,
                       published |-> <<>>,
                       notices |-> <<>>,
                       pc |-> "loop",
                       result |-> None]

NextVerify == VerifyPact \/ VerifyEnd

SpecVerify == InitVerify /\ [][NextVerify]_vars

-----------------------------------------------------------------------------
(* build_payload (pact_verifier/src/pact_broker.rs) *)

\* A TestResult is <<"Ok", ids>> or <<"Failed", pairs of an id and the
\* MismatchResult it may have>>; a MismatchResult is <<"Mismatches", list>>
\* or <<"Error", message>>. A JSON object is a record; a key that the code
\* inserts only when its list has elements holds the empty list otherwise,
\* and buildUrl is None when the key is missing.
to_bool(self) == self[1] = "Ok"

unwrap_or_default(id) == IF id.some THEN id.val ELSE <<>>

\* The JSON that the fold pushes for one Mismatch.
mismatch_json(mismatch) ==
    CASE mismatch[1] = "MethodMismatch" ->
            [attribute |-> "method", identifier |-> None,
             description |-> <<"Expected method of {} but received {}",
                               mismatch[2].expected, mismatch[2].actual>>]
      [] mismatch[1] = "PathMismatch" ->
            [attribute |-> "path", identifier |-> None,
             description |-> mismatch[2].mismatch]
      [] mismatch[1] = "StatusMismatch" ->
            [attribute |-> "status", identifier |-> None,
             description |-> mismatch[2].mismatch]
      [] mismatch[1] = "QueryMismatch" ->
            [attribute |-> "query", identifier |-> Some(mismatch[2].parameter),
             description |-> mismatch[2].mismatch]
      [] mismatch[1] = "HeaderMismatch" ->
            [attribute |-> "header", identifier |-> Some(mismatch[2].key),
             description |-> mismatch[2].mismatch]
      [] mismatch[1] = "BodyTypeMismatch" ->
            [attribute |-> "body", identifier |-> Some(<<"$">>),
             description |-> <<"Expected body type of '{}' but received '{}'",
                               mismatch[2].expected, mismatch[2].actual>>]
      [] mismatch[1] = "BodyMismatch" ->
            [attribute |-> "body", identifier |-> Some(mismatch[2].path),
             description |-> mismatch[2].mismatch]
      [] mismatch[1] = "MetadataMismatch" ->
            [attribute |-> "metadata", identifier |-> Some(mismatch[2].key),
             description |-> mismatch[2].mismatch]

\* itertools group_by: the runs of consecutive pairs with the same key, as
\* <<key, run>> in order.
RECURSIVE group_by(_)
group_by(pairs) ==
    IF pairs = <<>> THEN <<>>
    ELSE LET key == unwrap_or_default(pairs[1][1])
             rest == group_by(Tail(pairs))
         IN  IF rest # <<>> /\ rest[1][1] = key
             THEN << <<key, <<pairs[1]>> \o rest[1][2]>> >> \o Tail(rest)
             ELSE << <<key, <<pairs[1]>> >> >> \o rest

\* The fold over one group: the mismatches and the exceptions of its results.
RECURSIVE fold_group(_)
fold_group(group) ==
    IF group = <<>> THEN << <<>>, <<>> >>
    ELSE LET result == group[Len(group)][2]
             acc == fold_group(SubSeq(group, 1, Len(group) - 1))
         IN  IF ~result.some THEN acc
             ELSE IF result.val[1] = "Mismatches"
                  THEN <<acc[1] \o [k \in 1..Len(result.val[2]) |->
                                       mismatch_json(result.val[2][k])],
                         acc[2]>>
                  ELSE <<acc[1], Append(acc[2], [message |-> result.val[2]])>>

build_payload(result, version, build_url) ==
    [success |-> to_bool(result),
     providerApplicationVersion |-> version,
     verifiedBy |-> [implementation |-> "Pact-Rust", version |-> "PACT_RUST_VERSION"],
     buildUrl |-> build_url,
     testResults |->
        IF result[1] = "Failed"
        THEN LET groups == group_by(result[2])
             IN  [g \in 1..Len(groups) |->
                    LET values == fold_group(groups[g][2])
                    IN  [interactionId |-> groups[g][1],
                         success |-> values[1] = <<>> /\ values[2] = <<>>,
                         mismatches |-> values[1],
                         exceptions |-> values[2]]]
        ELSE LET ids == SelectSeq(result[2], LAMBDA id : id.some)
             IN  [k \in 1..Len(ids) |->
                    [interactionId |-> unwrap_or_default(ids[k]), success |-> TRUE]]]

BuildPayload ==
    /\ pc = "build_payload"
    /\ returned' = build_payload(operands[1], operands[2], operands[3])
    /\ pc' = "done"
    /\ UNCHANGED <<call, expected, actual, order, mismatches, body_calls, previous, operands,
                   equal, ctx, collaborators>>

MaxResults == 3

PayloadIds == {None, Some(<<"a">>), Some(<<"b">>)}

PayloadResults ==
    {None, Some(<<"Error", <<"Bang">> >>),
     Some(<<"Mismatches", <<MethodMismatch(<<"PUT">>, <<"POST">>)>> >>)}

TestResults ==
    UNION { { <<"Ok", ids>> : ids \in [1..n -> PayloadIds] }
            \cup { <<"Failed", pairs>> : pairs \in [1..n -> PayloadIds \X PayloadResults] }
          : n \in 0..MaxResults }

InitPayload ==
    /\ call = "build_payload"
    /\ operands \in TestResults \X {<<"1">>} \X {None, Some(<<"http://build-url">>)}
    /\ expected = <<>>
    /\ actual = <<>>
    /\ order = <<>>
    /\ pc = "build_payload"
    /\ mismatches = <<>>
    /\ body_calls = 0
    /\ previous = None
    /\ equal = <<>>
    /\ ctx = <<>>
    /\ returned = <<>>
    /\ mock_server = <<>>
    /\ broker = <<>>
    /\ verifier = <<>>
    /\ interaction = <<>>
    /\ hal = <<>>
    /\ handles = <<>>

NextPayload == BuildPayload

SpecPayload == InitPayload /\ [][NextPayload]_vars

-----------------------------------------------------------------------------
(* HALClient (pact_verifier/src/pact_broker.rs) *)

\* A client is its path_info; url, auth and retries never change. A resource
\* is [links |-> None or Some of a function from link names to link data]; a
\* link datum is <<"Object", [href, templated]>> or <<"String", text>>. A path is
\* a sequence of segments, and a segment "{name}" is a template variable. The
\* broker is a function from paths to the Result of fetching them, and every
\* fetch is recorded in requests.
OkVal(v) == [ok |-> TRUE, val |-> v]

update_path_info(self, path_info) == [self EXCEPT !.path_info = Some(path_info)]

find_link(self, link) ==
    IF ~self.path_info.some
    THEN Err(<<"LinkError", "No previous resource has been fetched from the pact broker. URL: '{}', LINK: '{}'", link>>)
    ELSE LET json == self.path_info.val
         IN  IF ~json.links.some
             THEN Err(<<"LinkError", "Expected a HAL+JSON response from the pact broker, but got a response with no '_links'. URL: '{}', LINK: '{}'", link>>)
             ELSE IF link \notin DOMAIN json.links.val
             THEN Err(<<"LinkError", "Link '{}' was not found in the response, only the following links where found: {:?}. URL: '{}', LINK: '{}'", link>>)
             ELSE IF json.links.val[link][1] # "Object"
             THEN Err(<<"LinkError", "Link is malformed, expected an object but got {}. URL: '{}', LINK: '{}'", link>>)
             ELSE OkVal([name |-> link,
                         href |-> json.links.val[link][2].href,
                         templated |-> json.links.val[link][2].templated])

\* Every {name} with a value is replaced by the value, the others stay.
parse_link_url(link, values) ==
    IF link.href.some
    THEN OkVal([k \in 1..Len(link.href.val) |->
                  IF link.href.val[k] \in DOMAIN values
                  THEN values[link.href.val[k]]
                  ELSE link.href.val[k]])
    ELSE Err(<<"LinkError", "Expected a HAL+JSON response from the pact broker, but got a link with no HREF. URL: '{}', LINK: '{}'", link.name>>)

\* The Result of a fetch and the requests it sends. The base URL parses.
fetch(server, path) == [result |-> server[path], requests |-> <<path>>]

fetch_url(server, link, template_values) ==
    LET link_url ==
            IF link.templated THEN parse_link_url(link, template_values)
            ELSE IF link.href.some THEN OkVal(link.href.val)
            ELSE Err(<<"LinkError", "Link is malformed, there is no href. URL: '{}', LINK: '{}'", link.name>>)
    IN  IF link_url.ok THEN fetch(server, link_url.val)
        ELSE [result |-> link_url, requests |-> <<>>]

\* fetch_link that asks for the root when no resource has been fetched.
fetch_linkFromRoot(self, server, link, template_values) ==
    LET link_data == find_link(self, link)
    IN  IF link_data.ok THEN fetch_url(server, link_data.val, template_values)
        ELSE fetch(server, <<"/">>)

fetch_link(self, server, link, template_values) ==
    LET link_data == find_link(self, link)
    IN  IF link_data.ok THEN fetch_url(server, link_data.val, template_values)
        ELSE [result |-> link_data, requests |-> <<>>]

\* A call of find_link on the client.
FindLink ==
    /\ hal.pc = "find_link"
    /\ hal' = [hal EXCEPT !.pc = "done", !.result = find_link(hal.self, hal.link)]
    /\ UNCHANGED <<matching, mock_server, broker, verifier, interaction, handles>>

\* A call of fetch_link on the client.
FetchLink ==
    /\ hal.pc = "fetch_link"
    /\ LET fetched == fetch_link(hal.self, hal.server, hal.link, hal.template_values)
       IN  hal' = [hal EXCEPT !.pc = "done",
                              !.result = fetched.result,
                              !.requests = @ \o fetched.requests]
    /\ UNCHANGED <<matching, mock_server, broker, verifier, interaction, handles>>

\* navigate up to its first await: the root is fetched when the client holds
\* no resource.
NavigateRoot ==
    /\ hal.pc = "navigate"
    /\ IF ~hal.self.path_info.some
       THEN LET fetched == fetch(hal.server, <<"/">>)
            IN  IF fetched.result.ok
                THEN hal' = [hal EXCEPT
                                !.pc = "navigate_link",
                                !.requests = @ \o fetched.requests,
                                !.client = Some(update_path_info(hal.self, fetched.result.val))]
                ELSE hal' = [hal EXCEPT
                                !.pc = "done",
                                !.requests = @ \o fetched.requests,
                                !.result = fetched.result]
       ELSE hal' = [hal EXCEPT !.pc = "navigate_link", !.client = Some(hal.self)]
    /\ UNCHANGED <<matching, mock_server, broker, verifier, interaction, handles>>

\* The rest of navigate: the link is fetched and the client updated.
NavigateLink ==
    /\ hal.pc = "navigate_link"
    /\ LET fetched == fetch_link(hal.client.val, hal.server, hal.link, hal.template_values)
       IN  hal' = [hal EXCEPT
                      !.pc = "done",
                      !.requests = @ \o fetched.requests,
                      !.result = IF fetched.result.ok
                                 THEN OkVal(update_path_info(hal.client.val, fetched.result.val))
                                 ELSE fetched.result]
    /\ UNCHANGED <<matching, mock_server, broker, verifier, interaction, handles>>

NoLinks == [links |-> None]

LinkData ==
    {<<"String", <<"/", "next">> >>,
     <<"Object", [href |-> None, templated |-> FALSE]>>,
     <<"Object", [href |-> None, templated |-> TRUE]>>,
     <<"Object", [href |-> Some(<<"/", "next">>), templated |-> FALSE]>>,
     <<"Object", [href |-> Some(<<"/", "{id}">>), templated |-> TRUE]>>}

\* Resources without links, with another link only, and with the link "next".
Resources ==
    {NoLinks, [links |-> Some([n \in {"other"} |-> <<"String", <<"/">> >>])]}
    \cup { [links |-> Some([n \in {"next"} |-> d])] : d \in LinkData }

BrokerPaths == {<<"/">>, <<"/", "next">>, <<"/", "{id}">>}

FetchErrors == {Err(<<"IoError", "Failed to access pact broker path '{}' - {}. URL: '{}'">>),
                Err(<<"NotFound", "Request to pact broker path '{}' failed: {}. URL: '{}'">>)}

\* What the broker answers: anything for the root, a resource or an error
\* for /next, and not found for the path of an unfilled template.
Brokers ==
    { [path \in BrokerPaths |->
          IF path = <<"/">> THEN root
          ELSE IF path = <<"/", "next">> THEN next
          ELSE Err(<<"NotFound", "Request to pact broker path '{}' failed: {}. URL: '{}'">>)]
      : root \in { OkVal(r) : r \in Resources } \cup FetchErrors,
        next \in { OkVal(NoLinks) } \cup FetchErrors }

TemplateValues == { <<>>, [n \in {"{id}"} |-> "next"] }

InitHal ==
    /\ Idle("HALClient")
    /\ mock_server = <<>>
    /\ broker = <<>>
    /\ verifier = <<>>
    /\ interaction = <<>>
    /\ handles = <<>>
    /\ \E op \in {"find_link", "fetch_link", "navigate"},
          path_info \in {None} \cup { Some(r) : r \in Resources },
          server \in Brokers,
          values \in TemplateValues :
           hal = [self |-> [path_info |-> path_info],
                  server |-> server,
                  link |-> "next",
                  template_values |-> values,
                  requests |-> <<>>,
                  client |-> None,
                  op |-> op,
                  pc |-> op,
                  result |-> None]

NextHal == FindLink \/ FetchLink \/ NavigateRoot \/ NavigateLink

SpecHal == InitHal /\ [][NextHal]_vars

-----------------------------------------------------------------------------
(* PactHandle (pact_mock_server_ffi/src/handles.rs) *)

\* PACT_HANDLES is the registry (the Vec behind the Mutex) and the thread
\* that holds the Mutex, if any. A Pact is its consumer, its provider and
\* the number of its interactions; the consumer of every call of new is the
\* caller and the number of its call. Each thread is at a point of new:
\* out of it, holding the lock, or having pushed its Pact.
\* lock() that does not wait for the holder.
can_lockUnguarded(holder) == TRUE

\* PACT_HANDLES.lock(): the calling thread goes on once nobody holds it.
can_lock(holder) == ~holder.some

\* handles.get_mut(self.pact - 1).map(f), with the index that f is given.
with_pact(registry, self) ==
    IF self.pact - 1 >= 0 /\ self.pact - 1 < Len(registry)
    THEN Some([index |-> self.pact - 1, pact |-> registry[self.pact]])
    ELSE None

Threads == {"t1", "t2"}

MaxNew == 2

MaxEdits == 1

InitHandles ==
    /\ Idle("PactHandle")
    /\ mock_server = <<>>
    /\ broker = <<>>
    /\ verifier = <<>>
    /\ interaction = <<>>
    /\ hal = <<>>
    /\ handles = [registry |-> <<>>,
                  holder |-> None,
                  at |-> [t \in Threads |-> "out"],
                  news |-> [t \in Threads |-> 0],
                  handed |-> <<>>,
                  edits |-> 0]

\* PactHandle::new: the lock is taken.
NewLock(t) ==
    /\ handles.at[t] = "out"
    /\ handles.news[t] < MaxNew
    /\ can_lock(handles.holder)
    /\ handles' = [handles EXCEPT !.holder = Some(t), !.at[t] = "locked",
                                  !.news[t] = @ + 1]
    /\ UNCHANGED <<matching, mock_server, broker, verifier, interaction, hal>>

\* PactHandle::new: the Pact is pushed.
NewPush(t) ==
    /\ handles.at[t] = "locked"
    /\ handles' = [handles EXCEPT
                      !.registry = Append(@, [consumer |-> <<t, handles.news[t]>>,
                                              provider |-> <<"provider">>,
                                              interactions |-> 0]),
                      !.at[t] = "pushed"]
    /\ UNCHANGED <<matching, mock_server, broker, verifier, interaction, hal>>

\* PactHandle::new: the handle is the length, and the lock is dropped.
NewReturn(t) ==
    /\ handles.at[t] = "pushed"
    /\ handles' = [handles EXCEPT
                      !.handed = Append(@, [consumer |-> <<t, handles.news[t]>>,
                                            handle |-> [pact |-> Len(handles.registry)]]),
                      !.holder = None,
                      !.at[t] = "out"]
    /\ UNCHANGED <<matching, mock_server, broker, verifier, interaction, hal>>

\* PactHandle::with_pact with a closure that adds an interaction.
WithPact(t, k) ==
    /\ handles.at[t] = "out"
    /\ handles.edits < MaxEdits
    /\ can_lock(handles.holder)
    /\ LET inner == with_pact(handles.registry, handles.handed[k].handle)
       IN  IF inner.some
           THEN handles' = [handles EXCEPT
                               !.registry[inner.val.index + 1].interactions = @ + 1,
                               !.edits = @ + 1]
           ELSE handles' = [handles EXCEPT !.edits = @ + 1]
    /\ UNCHANGED <<matching, mock_server, broker, verifier, interaction, hal>>

NextHandles ==
    \/ \E t \in Threads : NewLock(t)
    \/ \E t \in Threads : NewPush(t)
    \/ \E t \in Threads : NewReturn(t)
    \/ \E t \in Threads : \E k \in 1..Len(handles.handed) : WithPact(t, k)

SpecHandles == InitHandles /\ [][NextHandles]_vars

-----------------------------------------------------------------------------
(* Properties of match_request and match_response *)

\* What each step pushes for the arguments and iteration orders of the
\* current evaluation.
MethodStep == match_method(expected.method, actual.method)

PathStep == match_path(expected.path, actual.path)

BodyStep == match_body(expected, actual).pushed

QueryStep == match_query(expected.query, actual.query, order.eq, order.aq)

StatusStep == match_status(expected.status, actual.status)

HeadersStep == match_headers(expected.headers, actual.headers, order.eh, order.ah)

\* C1: when match_request returns, its result is the mismatches of the
\* method, path, body, query and headers steps, concatenated in this order;
\* when match_response returns, those of the body, status and headers steps.
\* No step is skipped because an earlier one produced mismatches.
C1_AllStepsInOrder ==
    /\ (call = "match_request" /\ pc = "done") =>
            mismatches = MethodStep \o PathStep \o BodyStep \o QueryStep \o HeadersStep
    /\ (call = "match_response" /\ pc = "done") =>
            mismatches = BodyStep \o StatusStep \o HeadersStep

\* A request where each of the five steps produced a mismatch, all returned.
C1_Witness ==
    /\ call = "match_request"
    /\ pc = "done"
    /\ MethodStep # <<>>
    /\ PathStep # <<>>
    /\ BodyStep # <<>>
    /\ QueryStep # <<>>
    /\ HeadersStep # <<>>
    /\ Len(mismatches) >= 5

\* C2: reflexivity. Matching a request or a response against itself returns
\* the empty list of mismatches.
C2_Reflexive ==
    (call \in { "match_request", "match_response" } /\ expected = actual) =>
        /\ pc # "panicked"
        /\ pc = "done" => mismatches = <<>>

\* C3: determinism. A second evaluation of the same arguments returns the
\* same list of mismatches, in the same order, as the first.
C3_Deterministic ==
    (pc = "done" /\ previous.some) => mismatches = previous.val

-----------------------------------------------------------------------------
(* match_body *)

BodyDone == call = "match_body" /\ pc = "done"

OneBodyMismatch(e, a) ==
    /\ Len(mismatches) = 1
    /\ mismatches[1][1] = "BodyMismatch"
    /\ mismatches[1][2].path = <<"/">>
    /\ mismatches[1][2].expected = e
    /\ mismatches[1][2].actual = a

\* C4 as stated: with equal content types, expected Missing gives nothing;
\* expected Null gives nothing for actual Missing or Null and one BodyMismatch
\* for actual Present; expected Present gives one BodyMismatch for actual
\* Missing, nothing and no call of the body matcher for actual Null, and a
\* call of the body matcher for actual Present.
C4_Original ==
    (BodyDone /\ expected.mimetype = actual.mimetype) =>
        CASE expected.body = Missing -> mismatches = <<>> /\ body_calls = 0
          [] expected.body = Null /\ ~is_present(actual.body) ->
                mismatches = <<>> /\ body_calls = 0
          [] expected.body = Null /\ is_present(actual.body) ->
                OneBodyMismatch(None, Some(actual.body[2])) /\ body_calls = 0
          [] is_present(expected.body) /\ actual.body = Missing ->
                OneBodyMismatch(Some(expected.body[2]), None) /\ body_calls = 0
          [] is_present(expected.body) /\ actual.body = Null ->
                mismatches = <<>> /\ body_calls = 0
          [] OTHER -> body_calls = 1

\* C4 (amended): with equal content types, expected Missing gives nothing;
\* expected Null gives nothing for actual Missing or Null and one BodyMismatch
\* for actual Present; expected Present gives one BodyMismatch for actual
\* Missing, and for actual Null as well as for actual Present one call of the
\* body matcher, an actual Null body being compared as the empty text.
C4_PresenceTable ==
    (BodyDone /\ expected.mimetype = actual.mimetype) =>
        CASE expected.body = Missing -> mismatches = <<>> /\ body_calls = 0
          [] expected.body = Null /\ ~is_present(actual.body) ->
                mismatches = <<>> /\ body_calls = 0
          [] expected.body = Null /\ is_present(actual.body) ->
                OneBodyMismatch(None, Some(actual.body[2])) /\ body_calls = 0
          [] is_present(expected.body) /\ actual.body = Missing ->
                OneBodyMismatch(Some(expected.body[2]), None) /\ body_calls = 0
          [] is_present(expected.body) /\ actual.body = Null ->
                /\ body_calls = 1
                /\ mismatches = compare_bodies(expected.mimetype, expected.body[2], <<>>)
          [] OTHER ->
                /\ body_calls = 1
                /\ mismatches = compare_bodies(expected.mimetype, expected.body[2],
                                               actual.body[2])

C4_Witness ==
    /\ BodyDone
    /\ expected.mimetype = actual.mimetype
    /\ is_present(expected.body)
    /\ actual.body = Null
    /\ body_calls = 1
    /\ mismatches # <<>>

\* C5: when the content types differ, match_body pushes exactly one
\* BodyTypeMismatch if the expected body is present and nothing otherwise, and
\* never calls the body matcher; when they are equal it pushes no
\* BodyTypeMismatch.
C5_BodyTypeMismatch ==
    BodyDone =>
        IF expected.mimetype # actual.mimetype
        THEN /\ body_calls = 0
             /\ mismatches = IF is_present(expected.body)
                             THEN <<BodyTypeMismatch(expected.mimetype, actual.mimetype)>>
                             ELSE <<>>
        ELSE \A i \in 1..Len(mismatches) : mismatches[i][1] # "BodyTypeMismatch"

C5_Witness ==
    /\ BodyDone
    /\ expected.mimetype # actual.mimetype
    /\ is_present(expected.body)
    /\ is_present(actual.body)
    /\ expected.body # actual.body
    /\ body_calls = 0
    /\ Len(mismatches) = 1
    /\ mismatches[1][1] = "BodyTypeMismatch"

-----------------------------------------------------------------------------
(* match_headers *)

HeaderKeysOf(part) == IF part.headers.some THEN DOMAIN part.headers.val ELSE {}

\* The expected keys that no actual key equals ignoring case.
AbsentKeys ==
    { k \in HeaderKeysOf(expected) :
        \A k2 \in HeaderKeysOf(actual) : to_lowercase(k2) # to_lowercase(k) }

\* The positions of the "missing" mismatches for the key.
MissingAt(k) ==
    { i \in 1..Len(mismatches) :
        /\ mismatches[i][1] = "HeaderMismatch"
        /\ mismatches[i][2].mismatch[1] = "Expected header '{}' but was missing"
        /\ mismatches[i][2].key = k }

\* Both maps hold one header, under keys that are equal ignoring case.
OneHeaderEach ==
    /\ call = "match_headers"
    /\ Cardinality(HeaderKeysOf(expected)) = 1
    /\ Cardinality(HeaderKeysOf(actual)) = 1
    /\ \A k \in HeaderKeysOf(expected) : \A k2 \in HeaderKeysOf(actual) :
            to_lowercase(k) = to_lowercase(k2)

ExpectedValue == expected.headers.val[CHOOSE k \in HeaderKeysOf(expected) : TRUE]

ActualValue == actual.headers.val[CHOOSE k \in HeaderKeysOf(actual) : TRUE]

\* C6: match_headers returns, with one "missing" HeaderMismatch for exactly
\* the expected keys that no actual key equals ignoring case; every mismatch
\* belongs to an expected header, so a header only in actual produces none;
\* and expected {K: v} against actual {K': v}, K' being K in another letter
\* case, gives no mismatch.
C6_Original ==
    (call = "match_headers" /\ pc # "headers") =>
        /\ pc # "panicked"
        /\ \A k \in HeaderKeysOf(expected) :
                Cardinality(MissingAt(k)) = IF k \in AbsentKeys THEN 1 ELSE 0
        /\ \A i \in 1..Len(mismatches) :
                \E k \in HeaderKeysOf(expected) :
                    to_lowercase(k) = to_lowercase(mismatches[i][2].key)
        /\ (OneHeaderEach /\ ExpectedValue = ActualValue) => mismatches = <<>>

ContentTypeCase ==
    /\ OneHeaderEach
    /\ HeaderKeysOf(expected) = { CONTENT_TYPE }

\* The media type: the part before the first ";".
MediaType(v) == trim(Head(split(v, ";")))

\* The parameters of a value: the parts after the first ";".
ParametersOf(v) == Tail(split(v, ";"))

\* A parameter without "=".
Malformed(v) ==
    \E i \in 1..Len(ParametersOf(v)) :
        \A j \in 1..Len(ParametersOf(v)[i]) : ParametersOf(v)[i][j] # "="

\* The parameters as a map from name to value, a repeated name keeping its
\* last value.
ParameterMap(v) == parse_charset_parameters(Tail(strip_whitespace_vec(v, ";")))

\* The expected parameters that the actual value lacks or holds with another
\* value.
FailingParameters ==
    { n \in DOMAIN ParameterMap(ExpectedValue) :
        ~ ( /\ n \in DOMAIN ParameterMap(ActualValue)
            /\ ParameterMap(ExpectedValue)[n] = ParameterMap(ActualValue)[n] ) }

\* C7 as stated: two Content-Type values give no mismatch iff their media
\* types are equal and every parameter name on both sides has equal values.
C7_Original ==
    (ContentTypeCase /\ pc = "done") =>
        ( mismatches = <<>> <=>
            /\ MediaType(ExpectedValue) = MediaType(ActualValue)
            /\ \A n \in DOMAIN ParameterMap(ExpectedValue)
                        \cap DOMAIN ParameterMap(ActualValue) :
                    ParameterMap(ExpectedValue)[n] = ParameterMap(ActualValue)[n] )

\* C7 (amended): two Content-Type values give no mismatch iff their media
\* types are equal and every parameter of the expected value is in the actual
\* value with an equal value: one HeaderMismatch under the key Content-Type
\* is pushed per expected parameter that is absent or different, and one when
\* the media types differ; a parameter only in the actual value gives none.
\* The comparison panics iff the media types are equal and a parameter of
\* either value has no "=".
C7_ContentType ==
    (ContentTypeCase /\ pc # "headers") =>
        /\ pc = "panicked" <=>
                /\ MediaType(ExpectedValue) = MediaType(ActualValue)
                /\ Malformed(ExpectedValue) \/ Malformed(ActualValue)
        /\ pc = "done" =>
                /\ mismatches = <<>> <=>
                        /\ MediaType(ExpectedValue) = MediaType(ActualValue)
                        /\ FailingParameters = {}
                /\ Len(mismatches) =
                        IF MediaType(ExpectedValue) = MediaType(ActualValue)
                        THEN Cardinality(FailingParameters) ELSE 1
                /\ \A i \in 1..Len(mismatches) :
                        /\ mismatches[i][1] = "HeaderMismatch"
                        /\ mismatches[i][2].key = CONTENT_TYPE
                        /\ mismatches[i][2].expected = ExpectedValue
                        /\ mismatches[i][2].actual = ActualValue

C7_Witness ==
    /\ ContentTypeCase
    /\ pc = "done"
    /\ MediaType(ExpectedValue) = MediaType(ActualValue)
    /\ ParameterMap(ActualValue) = <<>>
    /\ DOMAIN ParameterMap(ExpectedValue) # {}
    /\ Len(mismatches) = Cardinality(DOMAIN ParameterMap(ExpectedValue))

\* Both maps hold the one header X.
PlainHeaderCase ==
    /\ OneHeaderEach
    /\ HeaderKeysOf(expected) = { <<"X">> }
    /\ HeaderKeysOf(actual) = { <<"X">> }

\* The comma-separated, whitespace-trimmed tokens of a value.
Tokens(v) == [i \in 1..Len(split(v, ",")) |-> trim(split(v, ",")[i])]

\* C8: for a header other than Content-Type, match_headers gives no mismatch
\* iff the token sequences of the two values are equal; values with different
\* numbers of tokens always give a HeaderMismatch.
C8_Original ==
    (PlainHeaderCase /\ pc = "done") =>
        /\ mismatches = <<>> <=> Tokens(ExpectedValue) = Tokens(ActualValue)
        /\ Len(Tokens(ExpectedValue)) # Len(Tokens(ActualValue)) =>
                \E i \in 1..Len(mismatches) : mismatches[i][1] = "HeaderMismatch"

-----------------------------------------------------------------------------
(* match_query *)

\* The positions of the QueryMismatch values for the parameter whose
\* description is built from one of the templates.
QueryMismatchesAt(key, templates) ==
    { i \in 1..Len(mismatches) :
        /\ mismatches[i][1] = "QueryMismatch"
        /\ mismatches[i][2].parameter = key
        /\ mismatches[i][2].mismatch[1] \in templates }

LengthTemplates ==
    { "Expected an empty parameter list for '{}' but received {:?}",
      "Expected query parameter '{}' with {} value(s) but received {} value(s)" }

\* C9: with both query maps present, match_query returns no mismatch iff the
\* key sets are equal and every key's two lists have the same length and the
\* same value at every index; each key only in expected gives exactly one
\* "missing" QueryMismatch, each key only in actual exactly one "unexpected"
\* QueryMismatch, and two lists of different length give one QueryMismatch
\* for the key that reports the two lists.
C9_Query ==
    (call = "match_query" /\ pc = "done" /\ expected.query.some /\ actual.query.some) =>
        LET e == expected.query.val
            a == actual.query.val
        IN  /\ mismatches = <<>> <=>
                    /\ DOMAIN e = DOMAIN a
                    /\ \A k \in DOMAIN e :
                            /\ Len(e[k]) = Len(a[k])
                            /\ \A i \in 1..Len(e[k]) : e[k][i] = a[k][i]
            /\ \A k \in DOMAIN e \ DOMAIN a :
                    /\ Cardinality(QueryMismatchesAt(k,
                            { "Expected query parameter '{}' but was missing" })) = 1
                    /\ \E i \in 1..Len(mismatches) : mismatches[i] = query_missing(k, e[k])
            /\ \A k \in DOMAIN a \ DOMAIN e :
                    /\ Cardinality(QueryMismatchesAt(k,
                            { "Unexpected query parameter '{}' received" })) = 1
                    /\ \E i \in 1..Len(mismatches) : mismatches[i] = query_unexpected(k, a[k])
            /\ \A k \in DOMAIN e \cap DOMAIN a :
                    /\ Cardinality(QueryMismatchesAt(k, LengthTemplates)) =
                            IF Len(e[k]) # Len(a[k]) THEN 1 ELSE 0
                    /\ \A i \in QueryMismatchesAt(k, LengthTemplates) :
                            /\ mismatches[i][2].expected = debug_vec(e[k])
                            /\ mismatches[i][2].actual = debug_vec(a[k])

C9_Witness ==
    /\ call = "match_query"
    /\ pc = "done"
    /\ expected.query.some
    /\ actual.query.some
    /\ \E k \in DOMAIN expected.query.val \cap DOMAIN actual.query.val :
            /\ Len(expected.query.val[k]) = 1
            /\ Len(actual.query.val[k]) = 2
            /\ expected.query.val[k][1] = actual.query.val[k][1]
    /\ DOMAIN expected.query.val \ DOMAIN actual.query.val # {}
    /\ Len(mismatches) = 2

-----------------------------------------------------------------------------
(* Mismatch::eq *)

\* The two values are of one variant and agree on every field but the
\* description.
SameButDescription(m1, m2) ==
    /\ m1[1] = m2[1]
    /\ \A f \in DOMAIN m1[2] \ { "mismatch" } : m1[2][f] = m2[2][f]

\* C10: two Mismatch values are equal iff they are of the same variant and
\* all their fields other than the description are equal; values of different
\* variants are never equal; the relation is reflexive, symmetric and
\* transitive.
C10_Equality ==
    (call = "eq" /\ pc = "done") =>
        /\ \A i, j \in 1..Len(operands) :
                equal[i][j] <=> SameButDescription(operands[i], operands[j])
        /\ \A i, j \in 1..Len(operands) :
                operands[i][1] # operands[j][1] => ~equal[i][j]
        /\ \A i \in 1..Len(operands) : equal[i][i]
        /\ \A i, j \in 1..Len(operands) : equal[i][j] => equal[j][i]
        /\ \A i, j, k \in 1..Len(operands) :
                (equal[i][j] /\ equal[j][k]) => equal[i][k]

C10_Witness ==
    /\ call = "eq"
    /\ pc = "done"
    /\ operands[1] # operands[2]
    /\ equal[1][2]
    /\ operands[1][2].mismatch # operands[2][2].mismatch
    /\ operands[3][1] = operands[1][1]
    /\ ~equal[1][3]

-----------------------------------------------------------------------------
(* match_values *)

SelectedRules == select_best_matcher(ctx, <<<<"$">>, <<"a">>>>)

RulePasses(i) == matches_with_str(expected, actual, SelectedRules.rules[i]).ok

FailingRules == { i \in 1..Len(SelectedRules.rules) : ~RulePasses(i) }

\* The k-th failing rule, in rule order.
FailingRule(k) ==
    CHOOSE i \in FailingRules : Cardinality({ j \in FailingRules : j <= i }) = k

\* C11: on a non-empty selected rule list match_values evaluates every rule;
\* under And it is Ok iff every rule passes, under Or iff some rule passes,
\* and a failure holds exactly the messages of the failing rules in rule
\* order; on an empty selected list it holds the one message 'No matcher
\* found for path ...' under either logic.
C11_MatchValues ==
    (call = "match_values" /\ pc = "done") =>
        IF SelectedRules.rules # <<>>
        THEN /\ Len(returned.results) = Len(SelectedRules.rules)
             /\ \A i \in 1..Len(SelectedRules.rules) :
                    returned.results[i] =
                        matches_with_str(expected, actual, SelectedRules.rules[i])
             /\ SelectedRules.rule_logic = "And" =>
                    (returned.value.ok <=> FailingRules = {})
             /\ SelectedRules.rule_logic = "Or" =>
                    (returned.value.ok <=>
                        FailingRules # 1..Len(SelectedRules.rules))
             /\ ~returned.value.ok =>
                    returned.value.err =
                        [k \in 1..Cardinality(FailingRules) |->
                            matches_with_str(expected, actual,
                                             SelectedRules.rules[FailingRule(k)]).err]
        ELSE /\ ~returned.value.ok
             /\ Len(returned.value.err) = 1
             /\ returned.value.err[1] =
                    <<"No matcher found for path '{}'", <<"$", ".", "a">>>>

C11_Witness ==
    /\ call = "match_values"
    /\ pc = "done"
    /\ SelectedRules.rule_logic = "Or"
    /\ Len(SelectedRules.rules) = 3
    /\ Cardinality(FailingRules) = 2
    /\ ~RulePasses(1)
    /\ returned.value.ok

-----------------------------------------------------------------------------
(* The JSON value matcher *)

ValueDone == call = "matches_with" /\ pc = "done" /\ ctx.E = "Value"

\* C12: for two JSON arrays, MinType(n) fails iff the rule is not cascaded
\* and the actual length is below n, MaxType(m) iff not cascaded and the
\* length is above m, MinMaxType(n, m) iff not cascaded and the length is
\* below n or above m; for two values of one kind other than arrays the three
\* rules pass whatever n and m are.
C12_SizeRules ==
    (ValueDone /\ ctx.matcher[1] \in { "MinType", "MaxType", "MinMaxType" }) =>
        /\ (expected[1] = "Array" /\ actual[1] = "Array") =>
                /\ ctx.matcher[1] = "MinType" =>
                        (~returned.ok <=>
                            (~ctx.cascaded /\ Len(actual[2]) < ctx.matcher[2]))
                /\ ctx.matcher[1] = "MaxType" =>
                        (~returned.ok <=>
                            (~ctx.cascaded /\ Len(actual[2]) > ctx.matcher[2]))
                /\ ctx.matcher[1] = "MinMaxType" =>
                        (~returned.ok <=>
                            (~ctx.cascaded /\ (\/ Len(actual[2]) < ctx.matcher[2]
                                               \/ Len(actual[2]) > ctx.matcher[3])))
        /\ (expected[1] # "Array" /\ type_of(expected) = type_of(actual)) => returned.ok

C12_Witness ==
    /\ ValueDone
    /\ ctx.matcher[1] = "MinType"
    /\ ctx.cascaded
    /\ expected[1] = "Array"
    /\ actual[1] = "Array"
    /\ Len(actual[2]) < ctx.matcher[2]
    /\ returned.ok

-----------------------------------------------------------------------------
(* Properties of the scalar matchers *)

MatchesWithDone == call = "matches_with" /\ pc = "done"

\* The kind of each side of a call: of a scalar by the implementation's
\* types, of a JSON value by its variant, a JSON number being an integer or a
\* decimal.
json_kind(v) ==
    IF v[1] = "Number" THEN (IF is_f64(v) THEN "Decimal" ELSE "Integer") ELSE v[1]

expected_kind ==
    CASE ctx.E = "Value" -> json_kind(expected)
      [] ctx.E \in { "u64 for &str", "u16 for &str" } -> "String"
      [] ctx.E \in { "u64 for u64", "u16 for u16", "f64 for u64" } -> "Integer"
      [] ctx.E \in { "f64 for f64", "u64 for f64" } -> "Decimal"

actual_kind ==
    CASE ctx.E = "Value" -> json_kind(actual)
      [] ctx.E \in { "u64 for &str", "u16 for &str", "u64 for u64", "u16 for u16",
                     "u64 for f64" } -> "Integer"
      [] ctx.E \in { "f64 for f64", "f64 for u64" } -> "Decimal"

\* C13 as stated: under the Type rule a call passes only when the two values
\* are of the same kind, an integer and a decimal being different kinds, in
\* the scalar matchers and in the JSON value matcher alike.
C13_Original ==
    (MatchesWithDone /\ ctx.matcher[1] = "Type") =>
        (returned.ok <=> expected_kind = actual_kind)

\* C13: under the Type rule the scalar matchers pass exactly when the two
\* values are of the same kind, so an integer against a decimal fails either
\* way round; the JSON value matcher passes exactly when the two values are
\* of the same variant of Value, so two JSON numbers pass whether they are
\* integers or decimals.
C13_TypeKinds ==
    (MatchesWithDone /\ ctx.matcher[1] = "Type") =>
        IF ctx.E = "Value"
        THEN returned.ok <=> expected[1] = actual[1]
        ELSE returned.ok <=> expected_kind = actual_kind

C13_Witness ==
    /\ MatchesWithDone
    /\ ctx.matcher[1] = "Type"
    /\ ctx.E = "f64 for u64"
    /\ ~returned.ok

\* An integer JSON number against a decimal one passes under Type.
C13_JsonWitness ==
    /\ MatchesWithDone
    /\ ctx.matcher[1] = "Type"
    /\ ctx.E = "Value"
    /\ is_u64(expected)
    /\ is_f64(actual)
    /\ returned.ok

\* The status codes of a class.
in_class(v, status) ==
    CASE status[1] = "Information" -> 100 <= v /\ v <= 199
      [] status[1] = "Success" -> 200 <= v /\ v <= 299
      [] status[1] = "Redirect" -> 300 <= v /\ v <= 399
      [] status[1] = "ClientError" -> 400 <= v /\ v <= 499
      [] status[1] = "ServerError" -> 500 <= v /\ v <= 599
      [] status[1] = "StatusCodes" -> v \in status[2]
      [] status[1] = "NonError" -> v < 400
      [] status[1] = "Error" -> v >= 400

StatusCodeDone ==
    /\ MatchesWithDone
    /\ ctx.matcher[1] = "StatusCode"
    /\ ctx.E \in { "u64 for u64", "u16 for u16", "u64 for &str", "u16 for &str" }

\* C14: a StatusCode(class) rule passes exactly when the actual integer,
\* passed as u16 or as u64, is a status code of the class, so for every
\* actual integer exactly one of NonError and Error passes.
C14_StatusClass ==
    StatusCodeDone =>
        /\ returned.ok <=> in_class(actual, ctx.matcher[2])
        /\ matches_with(ctx.E, expected, actual, StatusCode(<<"NonError">>), FALSE).ok
                # matches_with(ctx.E, expected, actual, StatusCode(<<"Error">>), FALSE).ok

\* A u64 above u16::MAX has been matched against a status class.
C14_Witness ==
    /\ StatusCodeDone
    /\ ctx.E = "u64 for u64"
    /\ actual > 65535
    /\ ctx.matcher[2] = <<"Success">>
    /\ returned.ok

-----------------------------------------------------------------------------
(* Properties of the JSON comparison *)

CompareDone == call = "compare" /\ pc = "done"

\* The result of the same comparison under the other configuration.
UnderConfig(config) ==
    compare(<<<<"$">>>>, expected, actual, [ctx EXCEPT !.config = config])

\* The number of mismatches of a list that are equal to m.
Occurrences(ms, m) == Cardinality({ i \in 1..Len(ms) : eq(ms[i], m) })

\* C15: every mismatch the comparison reports under AllowUnexpectedKeys is
\* reported under NoUnexpectedKeys too, at least as often, mismatches being
\* compared by Mismatch::eq; this includes an empty expected map against a
\* map that is not empty.
C15_Monotone ==
    (CompareDone /\ ctx.config = "AllowUnexpectedKeys") =>
        \A i \in 1..Len(returned) :
            Occurrences(returned, returned[i])
                <= Occurrences(UnderConfig("NoUnexpectedKeys"), returned[i])

\* A comparison under AllowUnexpectedKeys has reported a mismatch, and the
\* stricter configuration reports more.
C15_Witness ==
    /\ CompareDone
    /\ ctx.config = "AllowUnexpectedKeys"
    /\ expected[1] = "Object"
    /\ actual[1] = "Object"
    /\ returned # <<>>
    /\ Len(UnderConfig("NoUnexpectedKeys")) > Len(returned)

\* The empty expected map against a map with an entry.
C15_EmptyWitness ==
    /\ CompareDone
    /\ ctx.config = "NoUnexpectedKeys"
    /\ expected = <<"Object", <<>>>>
    /\ actual[1] = "Object"
    /\ actual # expected
    /\ Len(returned) = 1

-----------------------------------------------------------------------------
(* Properties of the rule selection *)

SelectDone == call = "select_best_matcher" /\ pc = "done"

\* The rule paths of the category whose rule list was returned.
SelectedPaths ==
    { rp \in DOMAIN ctx.matchers : ctx.matchers[rp].rules = returned.rules }

\* C16: select_best_matcher returns the rule list of a rule path that
\* matches the lookup path exactly or as a prefix, and no matching rule path
\* has more literal segments, or as many and more segments; so a matching
\* path is preferred to its own prefixes and to a path of its length with a
\* wildcard in the place of one of its literals, a lookup path matched only
\* by shorter rule paths gets the rule list of one of them, cascaded, and the
\* lookups of the two selection tests get the rule lists the tests expect.
C16_BestMatcher ==
    SelectDone =>
        /\ matcher_is_defined(ctx, expected) =>
                \E rp \in SelectedPaths :
                    /\ path_matches(rp, expected)
                    /\ returned.cascaded = (Len(rp) < Len(expected))
                    /\ \A other \in DOMAIN ctx.matchers :
                           path_matches(other, expected) =>
                              /\ literal_segments(other) <= literal_segments(rp)
                              /\ literal_segments(other) = literal_segments(rp)
                                    => Len(other) <= Len(rp)
                              /\ (other # rp /\ Len(other) < Len(rp)
                                   /\ \A i \in 1..Len(other) : other[i] = rp[i])
                                    => ctx.matchers[other].rules # returned.rules
                              /\ (Len(other) = Len(rp) /\ other # rp
                                   /\ \A i \in 1..Len(rp) :
                                         other[i] = rp[i] \/ other[i] = WILDCARD)
                                    => ctx.matchers[other].rules # returned.rules
        /\ ~matcher_is_defined(ctx, expected) => returned.rules = <<>>
        /\ ctx = ByWeightMatchers =>
                \E l \in ByWeightLookups :
                    Segments(l[1]) = expected /\ returned.rules = <<Regex(l[2])>>
        /\ ctx = EqualWeightMatchers =>
                \E l \in EqualWeightLookups :
                    Segments(l[1]) = expected /\ returned.rules = <<Regex(l[2])>>

\* A rule path with fewer segments and more literals has been preferred to a
\* longer one.
C16_Witness ==
    /\ SelectDone
    /\ \E rp \in SelectedPaths, other \in DOMAIN ctx.matchers :
           /\ path_matches(rp, expected)
           /\ path_matches(other, expected)
           /\ Len(other) > Len(rp)
           /\ literal_segments(other) < literal_segments(rp)
           /\ Cardinality(SelectedPaths) = 1

MatchJsonDone == call = "match_json" /\ pc = "done"

parsed(text) == CHOOSE v \in JsonValues : to_string(v) = text

\* C17 as stated: when the expected body, the actual body or both do not
\* parse, the result is exactly one BodyMismatch at $; when both parse it is
\* the result of compare at $.
C17_Original ==
    MatchJsonDone =>
        IF expected \in InvalidTexts \/ actual \in InvalidTexts
        THEN /\ Len(returned) = 1
             /\ returned[1][1] = "BodyMismatch"
             /\ returned[1][2].path = <<"$">>
        ELSE returned = compare(<<<<"$">>>>, parsed(expected), parsed(actual), ctx)

\* C17: when a body does not parse, the result holds one BodyMismatch at $
\* for each body that does not parse, the expected one first, and nothing
\* else: one when one body fails, two when both fail; when both parse it is
\* the result of compare at $.
C17_ParseFailures ==
    MatchJsonDone =>
        IF expected \in InvalidTexts \/ actual \in InvalidTexts
        THEN /\ Len(returned) = Cardinality({ expected } \cap InvalidTexts)
                                    + Cardinality({ actual } \cap InvalidTexts)
             /\ \A i \in 1..Len(returned) :
                    /\ returned[i][1] = "BodyMismatch"
                    /\ returned[i][2].path = <<"$">>
                    /\ returned[i][2].expected = Some(expected)
                    /\ returned[i][2].actual = Some(actual)
             /\ expected \in InvalidTexts =>
                    returned[1][2].mismatch[1] = "Failed to parse the expected body: '{}'"
             /\ actual \in InvalidTexts =>
                    returned[Len(returned)][2].mismatch[1]
                        = "Failed to parse the actual body: '{}'"
        ELSE returned = compare(<<<<"$">>>>, parsed(expected), parsed(actual), ctx)

\* Neither body parses.
C17_Witness ==
    /\ MatchJsonDone
    /\ expected \in InvalidTexts
    /\ actual \in InvalidTexts
    /\ Len(returned) = 2

ListsDone ==
    /\ CompareDone
    /\ expected[1] = "Array"
    /\ actual[1] = "Array"
    /\ DOMAIN ctx.matchers = {}

\* The mismatches of the elements both lists have, in index order.
ElementMismatches ==
    Concat([i \in 1..Min({ Len(expected[2]), Len(actual[2]) }) |->
               compare(<<<<"$">>, index_to_string(i - 1)>>, expected[2][i], actual[2][i], ctx)])

\* The result is the element mismatches followed by n mismatches at the path
\* of the list.
EndsWithAtList(n) ==
    /\ Len(returned) = Len(ElementMismatches) + n
    /\ SubSeq(returned, 1, Len(ElementMismatches)) = ElementMismatches
    /\ \A k \in (Len(ElementMismatches) + 1)..Len(returned) :
           returned[k][1] = "BodyMismatch" /\ returned[k][2].path = <<"$">>

\* C18 as stated: without a matcher, two lists yield the mismatches of their
\* common elements in index order, then exactly one mismatch at the list's
\* path when the lengths differ, and nothing else.
C18_Original ==
    ListsDone =>
        EndsWithAtList(IF Len(expected[2]) # Len(actual[2]) THEN 1 ELSE 0)

\* C18: without a matcher, two lists yield the mismatches of their common
\* elements in index order, then one mismatch at the list's path for every
\* expected element beyond the end of the actual list, then exactly
\* one mismatch at the list's path when the lengths differ, and nothing
\* else; lists of one length with pairwise equal elements yield none.
C18_Lists ==
    ListsDone =>
        /\ EndsWithAtList(
               (IF Len(expected[2]) > Len(actual[2])
                THEN Len(expected[2]) - Len(actual[2]) ELSE 0)
               + (IF Len(expected[2]) # Len(actual[2]) THEN 1 ELSE 0))
        /\ expected = actual => returned = <<>>

\* The expected list is the longer one.
C18_Witness ==
    /\ ListsDone
    /\ Len(expected[2]) > Len(actual[2])
    /\ Len(actual[2]) > 0
    /\ Len(returned) > Len(ElementMismatches) + 1

-----------------------------------------------------------------------------
(* Properties of the mock server *)

ShutdownCalls == mock_server.calls

AlreadyShutDown(c) == c.result = Err("Mock server already shut down") /\ ~c.sent

\* C19: over any sequence of shutdown calls on a MockServer and its clones
\* the signal is sent at most once; after the first call on the original
\* server its sender is taken and every later call on it returns Err('Mock
\* server already shut down') and sends nothing; a call on a clone, or on a
\* clone of a clone, always returns that Err and sends nothing, so the server
\* is only ever signalled by a call on the original.
C19_ShutdownOnce ==
    call = "shutdown" =>
        /\ Cardinality({ k \in 1..Len(ShutdownCalls) : ShutdownCalls[k].sent }) <= 1
        /\ \A k \in 1..Len(ShutdownCalls) :
               /\ ShutdownCalls[k].server # 1 => AlreadyShutDown(ShutdownCalls[k])
               /\ (\E j \in 1..(k - 1) : ShutdownCalls[j].server = 1)
                     => AlreadyShutDown(ShutdownCalls[k])
               /\ ShutdownCalls[k].server = 1 => ~mock_server.servers[1].shutdown_tx.some
        /\ mock_server.receiver = "signalled" =>
               \E k \in 1..Len(ShutdownCalls) :
                   ShutdownCalls[k].server = 1 /\ ShutdownCalls[k].sent
        /\ \A i \in 2..Len(mock_server.servers) : ~mock_server.servers[i].shutdown_tx.some

\* A clone was shut down first, then the original twice.
C19_Witness ==
    /\ call = "shutdown"
    /\ Len(ShutdownCalls) >= 3
    /\ ShutdownCalls[1].server = 2
    /\ ShutdownCalls[2].server = 1
    /\ ShutdownCalls[2].sent
    /\ ShutdownCalls[3].server = 1
    /\ mock_server.receiver = "signalled"

-----------------------------------------------------------------------------
(* Properties of the broker client *)

Retrying == call = "with_retries" /\ broker.cloneable /\ broker.retries >= 1

\* C20: for a cloneable request and retries >= 1 the call does not panic, a
\* request is only ever sent first or after a 5xx response, so at most
\* retries requests are sent, and the call returns the response of the last
\* request sent: after exactly retries requests when that response is a 5xx
\* too.
C20_Retries ==
    Retrying =>
        /\ broker.pc # "panicked"
        /\ broker.requests <= broker.retries
        /\ broker.pc = "done" =>
               /\ broker.result = broker.response
               /\ broker.response.some
               /\ retryable(broker.response.val) => broker.requests = broker.retries

\* The same for the runs where 10_u64.pow(attempt) stays within a u64 or
\* the build wraps on overflow.
C20_WithoutOverflow ==
    (broker.retries < FirstOverflow \/ ~broker.overflow_checks) => C20_Retries

\* Every response was a 5xx and the call has returned.
C20_Witness ==
    /\ Retrying
    /\ broker.pc = "done"
    /\ broker.retries >= 3
    /\ broker.requests = broker.retries
    /\ retryable(broker.result.val)


-----------------------------------------------------------------------------
(* Properties of verify_provider_async *)

VerifyDone == call = "verify_provider_async" /\ verifier.pc = "done"

\* Pact p of the run could not be loaded.
FailedToLoad(p) == ~verifier.pact_results[p].ok

InteractionsOf(p) == 1..Len(verifier.pact_results[p].pact.interactions)

\* Interaction i of pact p was verified and failed.
Failed(p, i) ==
    LET pact == verifier.pact_results[p].pact
    IN  /\ verifier.pact_results[p].ok
        /\ i \in 1..Len(pact.interactions)
        /\ pact.interactions[i].passes_filter
        /\ ~pact.interactions[i].outcome.ok

PendingPact(p) ==
    LET context == verifier.pact_results[p].pact.context
    IN  context.some /\ context.val.pending

PendingInteraction(p, i) == verifier.pact_results[p].pact.interactions[i].pending

\* A pact failed to load, or an interaction failed that is not pending and
\* whose pact is not pending.
FatalFailure ==
    \E p \in 1..Len(verifier.pact_results) :
        \/ FailedToLoad(p)
        \/ \E i \in InteractionsOf(p) :
              Failed(p, i) /\ ~PendingPact(p) /\ ~PendingInteraction(p, i)

\* Every failure of a pending pact or pending interaction is in
\* pending_errors and not in errors.
PendingOnly ==
    \A p \in 1..Len(verifier.pact_results) : \A i \in InteractionsOf(p) :
        (Failed(p, i) /\ (PendingPact(p) \/ PendingInteraction(p, i)))
        => /\ \E k \in 1..Len(verifier.pending_errors) :
                 verifier.pending_errors[k][1] = <<"interaction", p, i>>
           /\ \A k \in 1..Len(verifier.errors) : verifier.errors[k][1] # <<"interaction", p, i>>

\* C21 as stated: verify_provider_async returns Ok(false) iff a pact failed
\* to load or a non-pending interaction of a non-pending pact failed.
C21_Original ==
    VerifyDone => (verifier.result = [ok |-> TRUE, val |-> FALSE] <=> FatalFailure)

\* C21: when verify_provider_async returns Ok(b), b is false iff a pact
\* failed to load or a non-pending interaction of a non-pending pact failed,
\* and the failures of pending pacts and pending interactions are recorded
\* as pending errors only.
C21_OverallResult ==
    (VerifyDone /\ verifier.result.ok)
    => /\ verifier.result.val = FALSE <=> FatalFailure
       /\ PendingOnly

\* The run ended with Ok(true) although a pending interaction failed.
C21_Witness ==
    /\ VerifyDone
    /\ verifier.result = [ok |-> TRUE, val |-> TRUE]
    /\ verifier.pending_errors # <<>>

\* The run ended with Ok(false).
C21_FalseWitness ==
    /\ VerifyDone
    /\ verifier.result = [ok |-> TRUE, val |-> FALSE]
    /\ FatalFailure

-----------------------------------------------------------------------------
(* Properties of build_payload *)

PayloadDone == call = "build_payload" /\ pc = "done"

\* The ids of a Failed result in the order of their first appearance.
RECURSIVE ids_in_order(_)
ids_in_order(pairs) ==
    IF pairs = <<>> THEN <<>>
    ELSE LET before == ids_in_order(SubSeq(pairs, 1, Len(pairs) - 1))
             id == pairs[Len(pairs)][1]
         IN  IF ~id.some \/ \E k \in 1..Len(before) : before[k] = id.val
             THEN before
             ELSE Append(before, id.val)

\* The id has a mismatch or an error among the pairs.
HasFailure(pairs, id) ==
    \E k \in 1..Len(pairs) :
        /\ pairs[k][1] = Some(id)
        /\ pairs[k][2].some
        /\ pairs[k][2].val[1] = "Mismatches" => pairs[k][2].val[2] # <<>>

\* C22: the top-level success is true iff the result is Ok; a Failed result
\* gives exactly one entry per interaction id, in input order, with success
\* iff the id has no mismatch and no error; an Ok result gives one success
\* entry per id that is present.
C22_Payload ==
    PayloadDone =>
        LET result == operands[1]
            tests == returned.testResults
        IN  /\ returned.success <=> result[1] = "Ok"
            /\ result[1] = "Failed" =>
                  LET ids == ids_in_order(result[2])
                  IN  /\ Len(tests) = Len(ids)
                      /\ \A k \in 1..Len(ids) :
                            /\ tests[k].interactionId = ids[k]
                            /\ tests[k].success <=> ~HasFailure(result[2], ids[k])
            /\ result[1] = "Ok" =>
                  LET ids == SelectSeq(result[2], LAMBDA id : id.some)
                  IN  /\ Len(tests) = Len(ids)
                      /\ \A k \in 1..Len(ids) :
                            tests[k] = [interactionId |-> ids[k].val, success |-> TRUE]

\* C22 for the Failed results in which every pair has an id and the pairs
\* of one id stand together.
C22_Adjacent ==
    LET pairs == operands[1][2]
        together ==
            /\ \A k \in 1..Len(pairs) : pairs[k][1].some
            /\ \A j \in 1..Len(pairs) : \A k \in j..Len(pairs) :
                  pairs[j][1] = pairs[k][1]
                  => \A l \in j..k : pairs[l][1] = pairs[j][1]
    IN  (PayloadDone /\ operands[1][1] = "Failed" /\ together) => C22_Payload

-----------------------------------------------------------------------------
(* Properties of HALClient *)

HalDone == call = "HALClient" /\ hal.pc = "done"

Unfetched == ~hal.self.path_info.some

NoPreviousResource ==
    Err(<<"LinkError", "No previous resource has been fetched from the pact broker. URL: '{}', LINK: '{}'", hal.link>>)

\* The fetches of navigate so far: the root when the client held no
\* resource, then the link.
RootFetched == hal.requests # <<>> /\ hal.requests[1] = <<"/">>

\* The path that the link of the resource leads to, if the link can be
\* followed.
LinkPath(resource) ==
    LET link_data == find_link([path_info |-> Some(resource)], hal.link)
    IN  IF ~link_data.ok THEN None
        ELSE IF link_data.val.templated
        THEN LET url == parse_link_url(link_data.val, hal.template_values)
             IN  IF url.ok THEN Some(url.val) ELSE None
        ELSE link_data.val.href

\* C23: find_link and fetch_link on a client without a resource return the
\* LinkError and send nothing; navigate on such a client fetches "/" first
\* and follows the link only after that; navigate on a client with a
\* resource sends only the request of the link; a failed fetch is the result
\* of navigate, and no client is returned.
C23_Navigate ==
    /\ (HalDone /\ hal.op \in {"find_link", "fetch_link"} /\ Unfetched)
       => /\ hal.result = NoPreviousResource
          /\ hal.requests = <<>>
    /\ (call = "HALClient" /\ hal.op = "navigate" /\ hal.pc # "navigate" /\ Unfetched)
       => /\ RootFetched
          /\ Len(hal.requests) <= 2
          /\ Len(hal.requests) = 2
             => /\ hal.server[<<"/">>].ok
                /\ LinkPath(hal.server[<<"/">>].val) = Some(hal.requests[2])
    /\ (HalDone /\ hal.op = "navigate" /\ ~Unfetched)
       => \/ hal.requests = <<>> /\ LinkPath(hal.self.path_info.val) = None
          \/ /\ Len(hal.requests) = 1
             /\ LinkPath(hal.self.path_info.val) = Some(hal.requests[1])
    /\ (HalDone /\ hal.op = "navigate")
       => /\ \A k \in 1..Len(hal.requests) :
                ~hal.server[hal.requests[k]].ok
                => /\ k = Len(hal.requests)
                   /\ hal.result = hal.server[hal.requests[k]]
          /\ hal.result.ok
             => /\ hal.requests # <<>>
                /\ hal.result.val.path_info
                     = Some(hal.server[hal.requests[Len(hal.requests)]].val)

\* navigate on a client without a resource fetched the root and then the
\* link, and returned the updated client.
C23_Witness ==
    /\ HalDone
    /\ hal.op = "navigate"
    /\ Unfetched
    /\ hal.requests = << <<"/">>, <<"/", "next">> >>
    /\ hal.result.ok

\* fetch_link on a client without a resource returned the LinkError.
C23_ErrorWitness ==
    /\ HalDone
    /\ Unfetched
    /\ hal.op = "fetch_link"
    /\ hal.result = NoPreviousResource

-----------------------------------------------------------------------------
(* Properties of MockServer::mismatches *)

\* The positions of the recorded results that are neither a match nor a
\* CORS pre-flight.
Unmatched(matches) ==
    { k \in 1..Len(matches) :
        matches[k][1] \in {"RequestMismatch", "RequestNotFound"}
        /\ ~(matches[k][1] = "RequestNotFound" /\ matches[k][2].method = "OPTIONS") }

\* The interactions whose request is in no RequestMatch or RequestMismatch.
Unrequested(matches) ==
    { i \in 1..Len(mock_server.pact) :
        \A k \in 1..Len(matches) :
           matches[k][1] \in {"RequestMatch", "RequestMismatch"}
           => matches[k][2] # mock_server.pact[i] }

Rank(S, x) == Cardinality({ y \in S : y <= x })

\* The list is the unmatched results in order and then the missing requests.
IsMismatchList(list, matches) ==
    /\ Len(list) = Cardinality(Unmatched(matches)) + Cardinality(Unrequested(matches))
    /\ \A k \in Unmatched(matches) : list[Rank(Unmatched(matches), k)] = matches[k]
    /\ \A i \in Unrequested(matches) :
          list[Cardinality(Unmatched(matches)) + Rank(Unrequested(matches), i)]
            = <<"MissingRequest", mock_server.pact[i]>>

\* C24: a call of mismatches returns the recorded results that are neither
\* a match nor a CORS pre-flight, in recording order, and then one
\* MissingRequest for each interaction of the pact whose request is in no
\* recorded RequestMatch or RequestMismatch; to_json says "ok" iff that
\* list is empty.
C24_Mismatches ==
    call = "mismatches"
    => /\ mock_server.returned.some
          => IsMismatchList(mock_server.returned.val.list, mock_server.returned.val.matches)
       /\ mock_server.status.some
          => (mock_server.status.val.status = "ok"
              <=> /\ Unmatched(mock_server.status.val.matches) = {}
                  /\ Unrequested(mock_server.status.val.matches) = {})
       /\ mock_server.status.some
          => mock_server.status.val.status \in {"ok", "error"}

\* mismatches has returned a recorded mismatch followed by a MissingRequest.
C24_Witness ==
    /\ call = "mismatches"
    /\ mock_server.returned.some
    /\ Len(mock_server.returned.val.list) = 2
    /\ mock_server.returned.val.list[1][1] = "RequestNotFound"
    /\ mock_server.returned.val.list[2][1] = "MissingRequest"

\* to_json has said "ok" after a request was recorded.
C24_OkWitness ==
    /\ call = "mismatches"
    /\ mock_server.status.some
    /\ mock_server.status.val.matches # <<>>
    /\ mock_server.status.val.status = "ok"

-----------------------------------------------------------------------------
(* Properties of verify_interaction *)

InteractionRun == call = "verify_interaction"

InteractionDone == InteractionRun /\ interaction.pc = "done"

\* The positions of the events of a kind.
EventsOf(kind) ==
    { k \in 1..Len(interaction.events) : interaction.events[k][1] = kind }

SetupFailed ==
    \E k \in 1..Len(interaction.provider_states) :
        interaction.provider_states[k].setup # "ok"

TeardownFailed ==
    \E k \in 1..Len(interaction.provider_states) :
        interaction.provider_states[k].teardown # "ok"

\* C25: when a request goes to the provider, and when verify_interaction
\* returns, the setup handler of every provider state has been called, in
\* the order of the states and before the request; when a setup handler
\* has failed no request is ever made and the result is the Error "One or
\* more of the state change handlers has failed".
C25_SetupFirst ==
    InteractionRun
    => /\ (EventsOf("request") # {} \/ interaction.pc = "done")
          => /\ Len(interaction.events) >= Len(interaction.provider_states)
             /\ \A k \in 1..Len(interaction.provider_states) :
                   interaction.events[k] = <<"setup", interaction.provider_states[k].name>>
       /\ SetupFailed
          => /\ EventsOf("request") = {}
             /\ interaction.pc = "done"
                => interaction.returned = Some(MismatchResultError(
                      "One or more of the state change handlers has failed"))

\* The second of two setup handlers failed and verify_interaction returned.
C25_Witness ==
    /\ InteractionDone
    /\ Len(interaction.provider_states) = 2
    /\ interaction.provider_states[1].setup = "ok"
    /\ interaction.provider_states[2].setup # "ok"
    /\ EventsOf("setup") = {1, 2}

\* Two setup handlers succeeded and the provider was asked.
C25_RequestWitness ==
    /\ InteractionDone
    /\ Len(interaction.provider_states) = 2
    /\ EventsOf("request") = {3}

\* C26: with provider states and teardown enabled, once verify_interaction
\* has returned after the verification step, the teardown of every state
\* has been called in order after that step, whatever its result, and a
\* failed teardown makes the result the teardown Error; no teardown is ever
\* called before the verification step is over, and none at all when a
\* setup handler failed or teardown is not enabled.
C26_Teardown ==
    InteractionRun
    => LET n == Len(interaction.provider_states)
       IN  /\ EventsOf("teardown") # {}
              => /\ interaction.result.some
                 /\ ~SetupFailed
                 /\ interaction.teardown
                 /\ \A k \in EventsOf("teardown") :
                       /\ k > n
                       /\ \A j \in EventsOf("request") : j < k
           /\ (interaction.pc = "done" /\ ~SetupFailed /\ n > 0 /\ interaction.teardown)
              => /\ interaction.result.some
                 /\ Cardinality(EventsOf("teardown")) = n
                 /\ \A k \in 1..n :
                       interaction.events[Len(interaction.events) - n + k]
                         = <<"teardown", interaction.provider_states[k].name>>
                 /\ interaction.returned =
                       IF TeardownFailed
                       THEN Some(MismatchResultError(
                              "One or more of the state change handlers has failed during teardown phase"))
                       ELSE interaction.result

\* The verification failed, both teardown handlers ran, and the result of
\* the verification was returned.
C26_Witness ==
    /\ InteractionDone
    /\ Cardinality(EventsOf("teardown")) = 2
    /\ ~interaction.result.val.ok
    /\ interaction.returned = interaction.result

\* A teardown handler failed after a successful verification.
C26_ReplacedWitness ==
    /\ InteractionDone
    /\ Cardinality(EventsOf("teardown")) = 2
    /\ interaction.result = Some(Ok)
    /\ ~interaction.returned.val.ok

-----------------------------------------------------------------------------
(* Properties of PactHandle *)

\* C27: whatever the interleaving of the calls of new, every handle handed
\* out so far is at least 1 and differs from every other, and with_pact on
\* it finds the Pact that its call of new created, at every later time.
C27_Handles ==
    call = "PactHandle"
    => /\ \A k \in 1..Len(handles.handed) :
             /\ handles.handed[k].handle.pact >= 1
             /\ with_pact(handles.registry, handles.handed[k].handle).some
             /\ with_pact(handles.registry, handles.handed[k].handle).val.pact.consumer
                  = handles.handed[k].consumer
       /\ \A j, k \in 1..Len(handles.handed) :
             j # k => handles.handed[j].handle # handles.handed[k].handle

\* Both threads have called new twice, the second call of one of them
\* between the two calls of the other, and a Pact has been changed since.
C27_Witness ==
    /\ call = "PactHandle"
    /\ Len(handles.handed) = 4
    /\ handles.handed[1].consumer[1] # handles.handed[2].consumer[1]
    /\ handles.handed[2].consumer[1] # handles.handed[3].consumer[1]
    /\ handles.edits > 0

-----------------------------------------------------------------------------
(* Properties of publishing and of the notices in verify_provider_async *)

\* Pact p has been verified: it was loaded with its plugins, has
\* interactions, and the loop has passed it.
Verified(p) ==
    /\ p < verifier.index
    /\ verifier.pact_results[p].ok
    /\ verifier.pact_results[p].pact.plugins_load
    /\ verifier.pact_results[p].pact.interactions # <<>>

\* The interaction ids in a published TestResult.
PublishedIds(result) ==
    { (IF result[1] = "Ok" THEN result[2][k] ELSE result[2][k][1]) : k \in 1..Len(result[2]) }

\* C28: with publishing enabled, what is published for a pact comes from
\* the interactions of that pact alone: it is a failure only if one of its
\* own interactions failed, and it names the ids of its own interactions
\* only.
C28_OwnResults ==
    (call = "verify_provider_async" /\ verifier.publish)
    => \A k \in 1..Len(verifier.published) :
          LET p == verifier.published[k].source.pact
              result == verifier.published[k].result
          IN  /\ result[1] = "Failed" => \E i \in InteractionsOf(p) : Failed(p, i)
              /\ \A id \in PublishedIds(result) : id.some /\ id.val[1] = p

\* C28 for the first pact that is verified in a run.
C28_FirstPact ==
    (call = "verify_provider_async" /\ verifier.publish)
    => \A k \in 1..Len(verifier.published) :
          LET p == verifier.published[k].source.pact
              result == verifier.published[k].result
          IN  (\A q \in 1..(p - 1) : ~Verified(q))
              => /\ result[1] = "Failed" <=> \E i \in InteractionsOf(p) : Failed(p, i)
                 /\ \A id \in PublishedIds(result) : id.some /\ id.val[1] = p

\* The notice shown after the verification of pact p, if one was shown.
AfterNotices(p) ==
    SelectSeq(verifier.notices,
              LAMBDA n : n.pact = p /\ n.when # VERIFICATION_NOTICE_BEFORE)

\* The stage of the run: what errors and pending_errors held when pact p
\* had been verified decides success, options.publish the other half.
RECURSIVE RecordedUpTo(_)
RecordedUpTo(p) ==
    IF p = 0 THEN FALSE
    ELSE \/ RecordedUpTo(p - 1)
         \/ FailedToLoad(p)
         \/ /\ Verified(p)
            /\ \E i \in InteractionsOf(p) : Failed(p, i)

StageFor(p) ==
    IF RecordedUpTo(p)
    THEN IF verifier.publish
         THEN VERIFICATION_NOTICE_AFTER_ERROR_RESULT_AND_PUBLISH
         ELSE VERIFICATION_NOTICE_AFTER_ERROR_RESULT_AND_NO_PUBLISH
    ELSE IF verifier.publish
         THEN VERIFICATION_NOTICE_AFTER_SUCCESSFUL_RESULT_AND_PUBLISH
         ELSE VERIFICATION_NOTICE_AFTER_SUCCESSFUL_RESULT_AND_NO_PUBLISH

\* C29: after a pact with interactions and notices has been verified, the
\* notice shown is that of success_true iff no error and no pending error
\* has been recorded, that of success_false otherwise, in the variant of
\* options.publish, with and without publishing.
C29_Notices ==
    call = "verify_provider_async"
    => \A p \in 1..Len(verifier.pact_results) :
          (Verified(p) /\ verifier.pact_results[p].pact.context.some)
          => AfterNotices(p) = <<[pact |-> p, when |-> StageFor(p)]>>

\* C29 when publishing is enabled.
C29_Publishing ==
    (call = "verify_provider_async" /\ verifier.publish)
    => \A p \in 1..Len(verifier.pact_results) :
          (Verified(p) /\ verifier.pact_results[p].pact.context.some)
          => AfterNotices(p) = <<[pact |-> p, when |-> StageFor(p)]>>
====
